---------------------------- MODULE Spec2Model ----------------------------
(***************************************************************************)
(* The scoring-and-validation engine of the Linear A analysis scripts       *)
(* (LINEAR_A_STATISTICAL_CONTROLS.py and LINEAR_A_CONTROL_VALIDATION.py).   *)
(*                                                                         *)
(* Python floats are modelled as exact rationals [num, den] in lowest      *)
(* terms.  Python dicts are functions whose DOMAIN is the set of keys that *)
(* are present; None is the empty function <<>> (both are falsy, which is  *)
(* all the code asks of hattusha_vowels).  A raised exception is a result  *)
(* whose err field names it.                                               *)
(***************************************************************************)
EXTENDS Integers, Sequences, FiniteSets, TLC

VARIABLES
    pc,                 \* position of the running script
    family_name,        \* argument of score_family
    family_data,        \* argument of score_family
    scored,             \* what score_family returned (or raised)
    LANGUAGE_FAMILIES,  \* the module-level table of candidate profiles
    ranked,             \* run_baseline_comparison: ranked
    gap,                \* run_baseline_comparison: top_score - second_score
    control_ranked,     \* run_linear_b_control: ranked
    ablation_results,   \* run_ablation_analysis: the returned rows
    verdict,            \* run_ablation_analysis: the printed VERDICT line
    n_iterations,       \* run_bootstrap_test: n_iterations
    family_dim_scores,  \* run_bootstrap_test: family_dim_scores
    indices,            \* run_bootstrap_test: indices of the current trial
    iter_scores,        \* run_bootstrap_test: iter_scores of the current trial
    bootstrap_scores,   \* run_bootstrap_test: bootstrap_scores
    hurrian_wins,       \* run_bootstrap_test: hurrian_wins
    bootstrap_report,   \* run_bootstrap_test: the table of intervals, win_pct
    n_trials,           \* run_perturbation_test: n_trials
    heap,               \* the dict objects of the process, by identity
    families_before,    \* LANGUAGE_FAMILIES when run_perturbation_test is called
    perturb_level,      \* run_perturbation_test: position in perturbation_levels
    perturbed_families, \* run_perturbation_test: perturbed_families
    flip_indices,       \* run_perturbation_test: flip_indices of the last family
    hurrian_scores_list,\* run_perturbation_test: hurrian_scores_list
    perturb_wins,       \* run_perturbation_test: hurrian_wins
    all_results,        \* run_perturbation_test: all_results
    perturb_verdict,    \* run_perturbation_test: the printed VERDICT line
    n_pseudo,           \* run_lexical_control: n_pseudo
    actual_mean,        \* run_lexical_control: actual_mean
    pseudo_words,       \* run_lexical_control: pseudo_words of the last lexicon
    pseudo_means,       \* run_lexical_control: pseudo_means
    p_value,            \* run_lexical_control: p_value
    lex_verdict,        \* run_lexical_control: the printed VERDICT line
    lex_result,         \* run_lexical_control: what it returned (or raised)
    domain_results,     \* bayesian_convergence: domain_results.items()
    domain_index,       \* bayesian_convergence: how many domains are folded in
    posterior,          \* bayesian_convergence: posterior
    bayes_verdict,      \* bayesian_convergence: the printed VERDICT line
    bayes_result,       \* bayesian_convergence: what it returned (or raised)
    rng,                \* the state of the generator of the random module
    calls               \* the engine invocations of the process, in order

vars == <<pc, family_name, family_data, scored, LANGUAGE_FAMILIES, ranked,
          gap, control_ranked, ablation_results, verdict,
          n_iterations, family_dim_scores, indices, iter_scores,
          bootstrap_scores, hurrian_wins, bootstrap_report,
          n_trials, heap, families_before, perturb_level, perturbed_families,
          flip_indices, hurrian_scores_list, perturb_wins, all_results,
          perturb_verdict,
          n_pseudo, actual_mean, pseudo_words, pseudo_means, p_value,
          lex_verdict, lex_result,
          domain_results, domain_index, posterior, bayes_verdict,
          bayes_result, rng, calls>>

scoreVars == <<family_name, family_data, scored>>
rankVars == <<LANGUAGE_FAMILIES, ranked, gap, control_ranked, ablation_results,
             verdict>>
bootVars == <<n_iterations, family_dim_scores, indices, iter_scores,
             bootstrap_scores, hurrian_wins, bootstrap_report>>
perturbVars == <<n_trials, heap, families_before, perturb_level,
                perturbed_families, flip_indices, hurrian_scores_list,
                perturb_wins, all_results, perturb_verdict>>
lexVars == <<n_pseudo, actual_mean, pseudo_words, pseudo_means, p_value,
            lex_verdict, lex_result>>
bayesVars == <<domain_results, domain_index, posterior, bayes_verdict,
              bayes_result>>
\* the variables of the resampling engines and of the convergence script
\* the generator shared by the engines, and what they were called with
processVars == <<rng, calls>>
\* the variables of what runs after the lexical control
afterLexVars == <<bayesVars, processVars>>
engineVars == <<bootVars, perturbVars, lexVars, afterLexVars>>
\* the variables of the engines other than the bootstrap
afterBootVars == <<perturbVars, lexVars, afterLexVars>>
\* the variables of the engines other than the bootstrap and the perturbation
afterPerturbVars == <<lexVars, afterLexVars>>

\* run_bootstrap_test has not been called
BootIdle ==
    /\ n_iterations = 0
    /\ family_dim_scores = <<>>
    /\ indices = <<>>
    /\ iter_scores = <<>>
    /\ bootstrap_scores = <<>>
    /\ hurrian_wins = 0
    /\ bootstrap_report = <<>>

\* run_perturbation_test has not been called
PerturbIdle ==
    /\ n_trials = 0
    /\ heap = <<>>
    /\ families_before = <<>>
    /\ perturb_level = 0
    /\ perturbed_families = <<>>
    /\ flip_indices = <<>>
    /\ hurrian_scores_list = <<>>
    /\ perturb_wins = 0
    /\ all_results = <<>>
    /\ perturb_verdict = ""

\* run_lexical_control has not been called
LexIdle ==
    /\ n_pseudo = 0
    /\ actual_mean = <<>>
    /\ pseudo_words = <<>>
    /\ pseudo_means = <<>>
    /\ p_value = <<>>
    /\ lex_verdict = ""
    /\ lex_result = <<>>

\* bayesian_convergence has not been called
BayesIdle ==
    /\ domain_results = <<>>
    /\ domain_index = 0
    /\ posterior = <<>>
    /\ bayes_verdict = ""
    /\ bayes_result = <<>>

\* no engine has drawn from the generator
ProcessIdle ==
    /\ rng = 0
    /\ calls = <<>>

AfterPerturbIdle == LexIdle /\ BayesIdle /\ ProcessIdle

\* the engines other than the bootstrap have not been called
AfterBootIdle == PerturbIdle /\ AfterPerturbIdle

EnginesIdle == BootIdle /\ AfterBootIdle

---------------------------------------------------------------------------
(* Bounds of the model.                                                    *)

\* how many of the 14 structural features the model keeps
NumFeatures == 4
\* how many of the 6 case endings the model keeps
NumCases == 2
\* how many of the 9 vocabulary items the model keeps
NumVocab == 2
\* how many of the 6 language families the table holds
NumFamilies == 3

---------------------------------------------------------------------------
(* Exact rational arithmetic standing for Python float arithmetic.         *)

Abs(x) == IF x < 0 THEN -x ELSE x

RECURSIVE GCD(_, _)
GCD(a, b) == IF b = 0 THEN a ELSE GCD(b, a % b)

\* n/d in lowest terms with a positive denominator (d # 0)
Rat(n, d) ==
    LET g == GCD(Abs(n), Abs(d))
        s == IF d < 0 THEN -1 ELSE 1
    IN  [num |-> (s * n) \div g, den |-> (s * d) \div g]

RInt(i) == [num |-> i, den |-> 1]
RAdd(x, y) == Rat(x.num * y.den + y.num * x.den, x.den * y.den)
RSub(x, y) == Rat(x.num * y.den - y.num * x.den, x.den * y.den)
RMul(x, y) == Rat(x.num * y.num, x.den * y.den)
RDivInt(x, n) == Rat(x.num, x.den * n)
RLt(x, y) == x.num * y.den < y.num * x.den
RLe(x, y) == x.num * y.den <= y.num * x.den
RMax(x, y) == IF RLt(x, y) THEN y ELSE x
RMin(x, y) == IF RLt(y, x) THEN y ELSE x
InRange0to100(x) == RLe(RInt(0), x) /\ RLe(x, RInt(100))

RECURSIVE SumOver(_, _)
\* sum(f[k] for k in S), f integer-valued
SumOver(f, S) ==
    IF S = {} THEN 0
    ELSE LET k == CHOOSE x \in S : TRUE IN f[k] + SumOver(f, S \ {k})

RECURSIVE RSumSeq(_)
\* sum of a sequence of rationals (exact, so the grouping is immaterial: the
\* two halves are summed apart)
RSumSeq(s) ==
    IF s = <<>> THEN RInt(0)
    ELSE IF Len(s) = 1 THEN s[1]
    ELSE LET half == Len(s) \div 2
         IN  RAdd(RSumSeq(SubSeq(s, 1, half)), RSumSeq(SubSeq(s, half + 1, Len(s))))

\* dict.get(key, default)
Get(d, key, default) == IF key \in DOMAIN d THEN d[key] ELSE default

\* a returned value / a raised exception
Ok(v) == [err |-> "", val |-> v]
Raise(e) == [err |-> e, val |-> RInt(0)]

---------------------------------------------------------------------------
(* The target profile LINEAR_A.                                            *)

VOWELS == <<"a", "i", "u", "e", "o">>

FeatureNames == <<"agglutinative", "sov_order", "rich_case_system",
                  "no_grammatical_gender", "possessive_enclitics",
                  "essive_case">>
CaseEndings == <<"-E", "-ME", "-TI", "-NA", "-SI", "-JA">>
VocabularyItems == <<"A-TA-I", "SA-SA-RA", "DA-KU-NA", "I-DA-MA-TE",
                     "DU-PU2-RE", "U-NA-KA-NA-SI">>

Features == {FeatureNames[i] : i \in 1..NumFeatures}
Cases == {CaseEndings[i] : i \in 1..NumCases}
Vocab == {VocabularyItems[i] : i \in 1..NumVocab}

\* log2 is exact only between percentages whose ratio is a power of two, so
\* the measured vowel frequencies (43.3, 20.6, 17.5, 14.4, 4.1) are put on
\* the grid 5 * 2^k, and candidate frequencies are drawn from the same grid.
LINEAR_A ==
    [vowels |-> [a |-> 40, i |-> 20, u |-> 20, e |-> 10, o |-> 5],
     features |-> [f \in Features |-> TRUE],
     case_endings |-> Cases,
     vocabulary |-> Vocab]


\* the first rows of the expanded vocabulary table
EXPANDED_VOCABULARY ==
    << [linear_a |-> "A-TA-I",
        scores |-> [n \in {"Hurro-Urartian", "Semitic", "Anatolian_IE",
                           "Kartvelian", "Egyptian", "Tyrsenian", "Linear_B"} |->
                    CASE n = "Hurro-Urartian" -> 95 [] n = "Semitic" -> 40
                      [] n = "Anatolian_IE" -> 55 [] n = "Kartvelian" -> 15
                      [] n = "Egyptian" -> 20 [] n = "Tyrsenian" -> 35
                      [] n = "Linear_B" -> 30]],
       [linear_a |-> "SA-SA-RA",
        scores |-> [n \in {"Hurro-Urartian", "Semitic", "Anatolian_IE",
                           "Kartvelian", "Egyptian", "Tyrsenian", "Linear_B"} |->
                    CASE n = "Hurro-Urartian" -> 80 [] n = "Semitic" -> 50
                      [] n = "Anatolian_IE" -> 20 [] n = "Kartvelian" -> 10
                      [] n = "Egyptian" -> 15 [] n = "Tyrsenian" -> 25
                      [] n = "Linear_B" -> 15]] >>

---------------------------------------------------------------------------
(* SCORING ENGINE.                                                         *)

RECURSIVE Log2Ratio(_, _)
\* math.log2(t / r) for positive t, r whose ratio is a power of two
Log2Ratio(t, r) ==
    IF t = r THEN 0
    ELSE IF t > r THEN 1 + Log2Ratio(t, 2 * r)
    ELSE Log2Ratio(2 * t, r) - 1

RECURSIVE vowel_distance_from(_, _, _)
\* the loop of vowel_distance from the i-th vowel on
vowel_distance_from(target, reference, i) ==
    IF i > Len(VOWELS) THEN RInt(0)
    ELSE LET v == VOWELS[i]
             t == Get(target, v, 0)
             r == Get(reference, v, 0)
             term == IF t > 0 /\ r > 0
                     THEN Rat(t * Log2Ratio(t, r), 100)
                     ELSE RInt(0)
         IN  RAdd(term, vowel_distance_from(target, reference, i + 1))

vowel_distance(target, reference) == vowel_distance_from(target, reference, 1)

\* vowel_score_of with the scale the code's comment describes (1.0 div = 0%)
vowel_score_of_scale_100(kl_div) ==
    RMin(RInt(100), RMax(RInt(0), RSub(RInt(100), RMul(kl_div, RInt(100)))))

\* score = max(0, 100 - kl_div * 500); return min(100, score)
vowel_score_of(kl_div) ==
    RMin(RInt(100), RMax(RInt(0), RSub(RInt(100), RMul(kl_div, RInt(500)))))

\* family_data.get("hattusha_vowels") or family_data["vowels"]
best_vowels_of(fd) ==
    LET hv == Get(fd, "hattusha_vowels", <<>>)
    IN  IF DOMAIN hv # {} THEN hv ELSE fd["vowels"]

score_vowels(fd) ==
    IF DOMAIN Get(fd, "hattusha_vowels", <<>>) = {} /\ "vowels" \notin DOMAIN fd
    THEN Raise("KeyError")
    ELSE Ok(vowel_score_of(vowel_distance(LINEAR_A["vowels"], best_vowels_of(fd))))

\* matching_features with a feature absent from the candidate counted as a match
matching_features_absent_matches(fd) ==
    {feat \in DOMAIN LINEAR_A["features"] :
        \/ feat \notin DOMAIN fd["features"]
        \/ fd["features"][feat] = LINEAR_A["features"][feat]}

\* the features of the target whose candidate value equals the target value
matching_features(fd) ==
    {feat \in DOMAIN LINEAR_A["features"] :
        /\ feat \in DOMAIN fd["features"]
        /\ fd["features"][feat] = LINEAR_A["features"][feat]}

score_features(fd) ==
    LET total == Cardinality(DOMAIN LINEAR_A["features"])
    IN  IF "features" \notin DOMAIN fd THEN Raise("KeyError")
        ELSE IF total = 0 THEN Raise("ZeroDivisionError")
        ELSE Ok(RMul(Rat(Cardinality(matching_features(fd)), total), RInt(100)))

score_cases(fd) ==
    IF "case_similarity" \notin DOMAIN fd THEN Raise("KeyError")
    ELSE LET sims == fd["case_similarity"]
         IN  IF DOMAIN sims = {} THEN Raise("ZeroDivisionError")
             ELSE Ok(Rat(SumOver(sims, DOMAIN sims), Cardinality(DOMAIN sims)))

score_vocabulary(fd) ==
    IF "vocabulary_matches" \notin DOMAIN fd THEN Raise("KeyError")
    ELSE LET matches == fd["vocabulary_matches"]
         IN  IF DOMAIN matches = {} THEN Raise("ZeroDivisionError")
             ELSE Ok(Rat(SumOver(matches, DOMAIN matches),
                         Cardinality(DOMAIN matches)))

\* LINEAR_A_CONTROL_VALIDATION.py: a profile without the map scores 0
score_vocabulary_original(fd) ==
    IF "vocabulary_matches" \in DOMAIN fd
    THEN LET matches == fd["vocabulary_matches"]
         IN  IF DOMAIN matches = {} THEN Raise("ZeroDivisionError")
             ELSE Ok(Rat(SumOver(matches, DOMAIN matches),
                         Cardinality(DOMAIN matches)))
    ELSE Ok(RInt(0))

RECURSIVE expanded_total(_, _)
\* total after the loop over EXPANDED_VOCABULARY from item i on
expanded_total(name, i) ==
    IF i > Len(EXPANDED_VOCABULARY) THEN 0
    ELSE Get(EXPANDED_VOCABULARY[i].scores, name, 0) + expanded_total(name, i + 1)

score_vocabulary_expanded(name) ==
    LET count == Len(EXPANDED_VOCABULARY)
    IN  IF count > 0 THEN Ok(Rat(expanded_total(name, 1), count)) ELSE Ok(RInt(0))

\* the eight dimension labels, in the order score_family inserts them
DIMS == <<"Vowel system", "Structural features", "Case system", "Vocabulary",
          "Geographic", "Timeline", "Scholarly support", "Religious parallel">>
Dimensions == {DIMS[i] : i \in 1..Len(DIMS)}

\* family_data[key] for a contextual field
context_field(fd, key) ==
    IF key \notin DOMAIN fd THEN Raise("KeyError") ELSE Ok(RInt(fd[key]))

\* the eight right-hand sides of score_family, in order, given the
\* vocabulary scorer's result
dimension_results(fd, vocabulary) ==
    << score_vowels(fd), score_features(fd), score_cases(fd), vocabulary,
       context_field(fd, "geographic_plausibility"),
       context_field(fd, "timeline_fit"),
       context_field(fd, "scholarly_support"),
       context_field(fd, "religious_parallel") >>

\* the result of score_family from its eight right-hand sides: the first
\* exception propagates, otherwise (scores, overall)
family_result(rs) ==
    LET bad == {i \in 1..Len(rs) : rs[i].err # ""}
    IN  IF bad # {}
        THEN [err |-> rs[CHOOSE i \in bad : \A j \in bad : i <= j].err,
              scores |-> <<>>, overall |-> RInt(0)]
        ELSE LET scores == [d \in Dimensions |->
                              rs[CHOOSE i \in 1..Len(DIMS) : DIMS[i] = d].val]
             IN  [err |-> "", scores |-> scores,
                  overall |-> RDivInt(RSumSeq([i \in 1..Len(rs) |-> rs[i].val]),
                                      Len(rs))]

\* LINEAR_A_STATISTICAL_CONTROLS.py
score_family(name, fd) == family_result(dimension_results(fd, score_vocabulary(fd)))

\* LINEAR_A_CONTROL_VALIDATION.py
score_family_cv(name, fd, use_expanded_vocab) ==
    family_result(dimension_results(fd,
        IF use_expanded_vocab THEN score_vocabulary_expanded(name)
        ELSE score_vocabulary_original(fd)))

---------------------------------------------------------------------------
(* Profiles handed to score_family.                                        *)

\* every dict with keys among K and values in V
PartialMaps(K, V) == UNION {[S -> V] : S \in SUBSET K}

VowelSet == {VOWELS[i] : i \in 1..Len(VOWELS)}
GridValues == {0, 5, 10, 20, 40}
\* vowel distributions on the grid, percentages summing to about 100
VowelDists == {d \in [VowelSet -> GridValues] : SumOver(d, VowelSet) \in {95, 100}}
\* regional variants: distributions in which every vowel occurs
VariantDists ==
    {d \in VowelDists : SumOver(d, VowelSet) = 100 /\ \A v \in VowelSet : d[v] > 0}

SimValues == {0, 50, 100}
ContextValues == {0, 100, 120}
ContextKeys == {"geographic_plausibility", "timeline_fit",
                "scholarly_support", "religious_parallel"}

\* a complete profile
BaseProfile ==
    [vowels |-> [v \in VowelSet |-> 20],
     hattusha_vowels |-> <<>>,
     features |-> [f \in Features |-> TRUE],
     case_similarity |-> [c \in Cases |-> 50],
     vocabulary_matches |-> [w \in Vocab |-> 50],
     geographic_plausibility |-> 50,
     timeline_fit |-> 50,
     scholarly_support |-> 50,
     religious_parallel |-> 50]

\* the dict d without key k
Without(d, k) == [x \in DOMAIN d \ {k} |-> d[x]]

\* the profiles scored: the base profile with one section replaced by every
\* value of its kind, or with one key absent
ProfileInputs ==
    {[BaseProfile EXCEPT !["vowels"] = d, !["hattusha_vowels"] = h] :
        d \in VowelDists, h \in VariantDists \cup {<<>>}}
    \cup {[BaseProfile EXCEPT !["features"] = f] :
            f \in PartialMaps(Features, BOOLEAN)}
    \cup {[BaseProfile EXCEPT !["case_similarity"] = c] :
            c \in PartialMaps(Cases, SimValues)}
    \cup {[BaseProfile EXCEPT !["vocabulary_matches"] = m] :
            m \in PartialMaps(Vocab, SimValues)}
    \cup {[BaseProfile EXCEPT !["geographic_plausibility"] = x[1],
                              !["timeline_fit"] = x[2],
                              !["scholarly_support"] = x[3],
                              !["religious_parallel"] = x[4]] :
            x \in [1..4 -> ContextValues]}
    \cup {Without(BaseProfile, k) : k \in DOMAIN BaseProfile}

\* names under which a profile is scored
ScoreNames == {"Hurro-Urartian", "Linear_B", "Linear_B_Control"}

NotScored == [err |-> "not called", scores |-> <<>>, overall |-> RInt(0)]

RankIdle ==
    /\ LANGUAGE_FAMILIES = <<>>
    /\ ranked = <<>>
    /\ gap = RInt(0)
    /\ control_ranked = <<>>
    /\ ablation_results = <<>>
    /\ verdict = [line |-> "", critical |-> <<>>]

InitScore ==
    /\ pc = "score_family"
    /\ \/ family_name = "Hurro-Urartian" /\ family_data \in ProfileInputs
       \/ family_name \in ScoreNames /\ family_data = BaseProfile
    /\ scored = NotScored
    /\ RankIdle
    /\ EnginesIdle

\* LINEAR_A_STATISTICAL_CONTROLS.score_family(family_name, family_data)
ScoreFamily ==
    /\ pc = "score_family"
    /\ scored' = score_family(family_name, family_data)
    /\ pc' = "scored"
    /\ UNCHANGED <<family_name, family_data, rankVars, engineVars>>

\* LINEAR_A_CONTROL_VALIDATION.score_family(family_name, family_data,
\*                                          use_expanded_vocab)
ScoreFamilyCV(use_expanded_vocab) ==
    /\ pc = "score_family"
    /\ scored' = score_family_cv(family_name, family_data, use_expanded_vocab)
    /\ pc' = IF use_expanded_vocab THEN "scored_cv_expanded" ELSE "scored_cv_original"
    /\ UNCHANGED <<family_name, family_data, rankVars, engineVars>>

NextScore ==
    \/ ScoreFamily
    \/ \E use_expanded_vocab \in BOOLEAN : ScoreFamilyCV(use_expanded_vocab)

SpecScore == InitScore /\ [][NextScore]_vars

---------------------------------------------------------------------------
(* Properties of the scorers (SpecScore).                                  *)

Returned == pc \in {"scored", "scored_cv_expanded", "scored_cv_original"} /\ scored.err = ""

\* C1: every dimension score and the overall score returned by score_family
\* lie in [0,100], whatever raw values the profile carries.
C1_ScoresInRange ==
    Returned =>
        /\ \A d \in Dimensions : InRange0to100(scored.scores[d])
        /\ InRange0to100(scored.overall)

\* how many target features the candidate's map holds with the target's value
C2_k ==
    Cardinality({f \in DOMAIN LINEAR_A["features"] :
        /\ f \in DOMAIN family_data["features"]
        /\ family_data["features"][f] = LINEAR_A["features"][f]})

\* C2: score_features is 100*k/n when exactly k of the n target features
\* have an equal candidate value; an absent feature is a non-match and no
\* error; the score is 100 iff all n match.
C2_FeatureOverlap ==
    /\ Returned =>
        LET n == Cardinality(DOMAIN LINEAR_A["features"])
        IN  /\ scored.scores["Structural features"] = Rat(100 * C2_k, n)
            /\ (scored.scores["Structural features"] = RInt(100)) <=> (C2_k = n)
    /\ (/\ pc # "score_family"
        /\ "features" \in DOMAIN family_data
        /\ [family_data EXCEPT !["features"] = BaseProfile["features"]] = BaseProfile)
       => scored.err = ""

\* a candidate that omits a feature and matches some but not all features
C2_Witness ==
    /\ pc = "scored" /\ scored.err = ""
    /\ \E f \in Features : f \notin DOMAIN family_data["features"]
    /\ C2_k > 0 /\ C2_k < NumFeatures
    /\ scored.scores["Structural features"] = Rat(100 * C2_k, NumFeatures)

\* C3: the case score is the mean over the fixed target suffix set, an
\* omitted suffix contributing 0 and still counting in the divisor.
C3_CaseMeanOverTargetSet ==
    Returned =>
        scored.scores["Case system"] =
            Rat(SumOver([c \in LINEAR_A["case_endings"] |->
                            Get(family_data["case_similarity"], c, 0)],
                        LINEAR_A["case_endings"]),
                Cardinality(LINEAR_A["case_endings"]))

\* C4: the vocabulary score is the mean over the same fixed item list for
\* every candidate, an item without an entry counting as 0.
C4_VocabularyMeanOverFixedList ==
    /\ (Returned /\ pc \in {"scored", "scored_cv_original"}) =>
        scored.scores["Vocabulary"] =
            Rat(SumOver([w \in LINEAR_A["vocabulary"] |->
                            Get(Get(family_data, "vocabulary_matches", <<>>), w, 0)],
                        LINEAR_A["vocabulary"]),
                Cardinality(LINEAR_A["vocabulary"]))
    /\ (Returned /\ pc = "scored_cv_expanded") =>
        scored.scores["Vocabulary"] =
            Rat(SumOver([i \in 1..Len(EXPANDED_VOCABULARY) |->
                            Get(EXPANDED_VOCABULARY[i].scores, family_name, 0)],
                        1..Len(EXPANDED_VOCABULARY)),
                Len(EXPANDED_VOCABULARY))

\* the vowel score a single distribution would get
C5_ScoreOf(dist) ==
    LET d == vowel_distance(LINEAR_A["vowels"], dist)
    IN  IF RLe(d, RInt(0)) THEN RInt(100)
        ELSE IF RLe(Rat(1, 5), d) THEN RInt(0)
        ELSE RSub(RInt(100), RMul(d, RInt(500)))

\* C5: with both a default and an alternate vowel distribution, the vowel
\* score is that of the variant closer to the target: the maximum of the two.
C5_BestVariantScored ==
    (/\ Returned
     /\ "vowels" \in DOMAIN family_data
     /\ DOMAIN Get(family_data, "hattusha_vowels", <<>>) # {})
    => scored.scores["Vowel system"] =
          RMax(C5_ScoreOf(family_data["vowels"]),
               C5_ScoreOf(family_data["hattusha_vowels"]))

\* the divergence of the distribution that was scored
C6_d == vowel_distance(LINEAR_A["vowels"], best_vowels_of(family_data))

\* for every candidate distribution o, its divergence from the target and
\* the score score_vowels gives a profile whose distribution is o
C6_Sweep ==
    {[d |-> vowel_distance(LINEAR_A["vowels"], o),
      score |-> score_vowels([BaseProfile EXCEPT !["vowels"] = o]).val] :
        o \in VowelDists}

RequiredSections == DOMAIN BaseProfile \ {"hattusha_vowels"}

\* C8: scoring a profile that lacks a required section fails with an error
\* and yields no score.
C8_MissingSectionFails ==
    (/\ pc \in {"scored", "scored_cv_expanded", "scored_cv_original"}
     /\ \E k \in RequiredSections : k \notin DOMAIN family_data)
    => scored.err # ""

\* the profile has the section and the section has no entry
C25_CountIsZero(section) ==
    section \in DOMAIN family_data /\ DOMAIN family_data[section] = {}

\* C25: a scoring function whose entry count is 0 returns 0 and does not
\* raise a division error, so a profile with an empty section is scored and
\* the dimension of the empty section is 0.
C25_ZeroCountScoresZero ==
    pc \in {"scored", "scored_cv_expanded", "scored_cv_original"} =>
        /\ scored.err # "ZeroDivisionError"
        /\ C25_CountIsZero("case_similarity") =>
               scored.scores["Case system"] = RInt(0)
        /\ C25_CountIsZero("vocabulary_matches") /\ pc # "scored_cv_expanded" =>
               scored.scores["Vocabulary"] = RInt(0)

---------------------------------------------------------------------------
(* TEST 1 and TEST 2 of LINEAR_A_STATISTICAL_CONTROLS.py and the Linear B   *)
(* control of LINEAR_A_CONTROL_VALIDATION.py, over a table of profiles.    *)
(* LANGUAGE_FAMILIES is an ordered dict: a sequence of [name, data] items  *)
(* in insertion order.                                                     *)

\* the keys of LANGUAGE_FAMILIES in the order the table lists them
FamilyNames == <<"Hurro-Urartian", "Semitic", "Anatolian_IE", "Kartvelian",
                 "Egyptian", "Tyrsenian">>

\* Python's string order on the names in use
NameOrder == <<"Anatolian_IE", "Egyptian", "Hurro-Urartian", "Kartvelian",
               "Linear_B_Control", "Semitic", "Tyrsenian">>
NameRank(n) == CHOOSE i \in 1..Len(NameOrder) : NameOrder[i] = n

\* the control profile (no vocabulary_matches; vowels put on the grid)
LINEAR_B_CONTROL ==
    [vowels |-> [v \in VowelSet |-> 20],
     hattusha_vowels |-> <<>>,
     features |-> [f \in Features |-> f \in {"rich_case_system", "possessive_enclitics"}],
     case_similarity |-> [c \in Cases |-> IF c \in {"-E", "-NA"} THEN 25
                                          ELSE IF c = "-TI" THEN 20 ELSE 15],
     geographic_plausibility |-> 90,
     timeline_fit |-> 85,
     scholarly_support |-> 10,
     religious_parallel |-> 25]

\* the sequence s with x placed after its first k items
InsertAt(s, k, x) == SubSeq(s, 1, k) \o <<x>> \o SubSeq(s, k + 1, Len(s))

RECURSIVE sorted_by_name_upto(_, _)
\* the first n items in sorted order
sorted_by_name_upto(items, n) ==
    IF n = 0 THEN <<>>
    ELSE InsertAt(sorted_by_name_upto(items, n - 1),
                  Cardinality({i \in 1..(n - 1) :
                      NameRank(items[i].name) < NameRank(items[n].name)}),
                  items[n])

\* sorted(items) for (name, data) items with distinct names
sorted_by_name(items) == sorted_by_name_upto(items, Len(items))

RECURSIVE sorted_desc_unstable_upto(_, _)
\* sorted_desc_upto with an item placed before the earlier items it ties with
sorted_desc_unstable_upto(items, n) ==
    IF n = 0 THEN <<>>
    ELSE InsertAt(sorted_desc_unstable_upto(items, n - 1),
                  Cardinality({i \in 1..(n - 1) :
                      RLt(items[n].overall, items[i].overall)}),
                  items[n])

RECURSIVE sorted_desc_upto(_, _)
\* the first n items in descending order of overall, each item placed after
\* the earlier items whose key is greater than or equal to its own
sorted_desc_upto(items, n) ==
    IF n = 0 THEN <<>>
    ELSE InsertAt(sorted_desc_upto(items, n - 1),
                  Cardinality({i \in 1..(n - 1) :
                      RLe(items[n].overall, items[i].overall)}),
                  items[n])

\* sorted(items, key=overall, reverse=True): descending, and stable (items
\* with equal keys keep the order they had in items)
sorted_desc(items) == sorted_desc_upto(items, Len(items))

\* results.items() after the scoring loop over items
score_items(items) ==
    [i \in 1..Len(items) |->
        LET r == score_family(items[i].name, items[i].data)
        IN  [name |-> items[i].name, scores |-> r.scores, overall |-> r.overall]]

\* the same with the control validation's score_family, expanded vocabulary
score_items_cv(items) ==
    [i \in 1..Len(items) |->
        LET r == score_family_cv(items[i].name, items[i].data, TRUE)
        IN  [name |-> items[i].name, scores |-> r.scores, overall |-> r.overall]]

\* run_baseline_comparison: ranked
baseline_ranked(table) == sorted_desc(score_items(sorted_by_name(table)))

\* run_baseline_comparison: gap
baseline_gap(rk) ==
    LET top_score == rk[1].overall
        second_score == IF Len(rk) > 1 THEN rk[2].overall ELSE RInt(0)
    IN  RSub(top_score, second_score)

\* run_linear_b_control: ranked
control_ranking(table) ==
    sorted_desc(score_items_cv(
        Append(table, [name |-> "Linear_B_Control", data |-> LINEAR_B_CONTROL])))

\* reduced_avg with the dimension after drop_dim left out instead of drop_dim
reduced_avg_drops_next(scores, drop_dim) ==
    LET k == CHOOSE i \in 1..Len(DIMS) : DIMS[i] = drop_dim
        other == DIMS[(k % Len(DIMS)) + 1]
        kept == SelectSeq(DIMS, LAMBDA x : x # other)
    IN  RDivInt(RSumSeq([i \in 1..Len(kept) |-> scores[kept[i]]]), Len(kept))

\* sum(reduced.values()) / len(reduced), reduced = scores without drop_dim
reduced_avg(scores, drop_dim) ==
    LET kept == SelectSeq(DIMS, LAMBDA k : k # drop_dim)
    IN  RDivInt(RSumSeq([i \in 1..Len(kept) |-> scores[kept[i]]]), Len(kept))

\* all_family_scores.items() for one dropped dimension; scored_items[i] is
\* what score_family returns for the i-th family of the table each time the
\* loop calls it (score_family is pure)
all_family_scores(scored_items, drop_dim) ==
    [i \in 1..Len(scored_items) |->
        [name |-> scored_items[i].name,
         overall |-> reduced_avg(scored_items[i].scores, drop_dim)]]

\* LANGUAGE_FAMILIES[name]
Lookup(table, name) == table[CHOOSE i \in 1..Len(table) : table[i].name = name].data

\* run_ablation_analysis: the row appended for drop_dim
ablation_row(full, scored_items, drop_dim) ==
    LET afs == all_family_scores(scored_items, drop_dim)
        hurrian_reduced ==
            afs[CHOOSE i \in 1..Len(afs) : afs[i].name = "Hurro-Urartian"].overall
        rk == sorted_desc(afs)
    IN  [drop_dim |-> drop_dim,
         hurrian_reduced |-> hurrian_reduced,
         delta |-> RSub(hurrian_reduced, full.overall),
         still_first |-> (rk[1].name = "Hurro-Urartian"),
         ranked |-> rk]

\* run_ablation_analysis: ablation_results after the loop over the dimensions
ablation_rows(full, scored_items) ==
    [i \in 1..Len(DIMS) |-> ablation_row(full, scored_items, DIMS[i])]

\* run_ablation_analysis: the VERDICT line and the dimensions it names
ablation_verdict(rows) ==
    LET still_first_count == Cardinality({i \in 1..Len(rows) : rows[i].still_first})
        flipped == SelectSeq(rows, LAMBDA r : ~r.still_first)
    IN  IF still_first_count = Len(rows)
        THEN [line |-> "ROBUST", critical |-> <<>>]
        ELSE IF still_first_count >= Len(rows) - 1
        THEN [line |-> "LARGELY ROBUST", critical |-> <<>>]
        ELSE [line |-> "FRAGILE",
              critical |-> [i \in 1..Len(flipped) |-> flipped[i].drop_dim]]

\* complete profiles that differ in three dimensions
RankProfiles ==
    {[BaseProfile EXCEPT !["timeline_fit"] = t,
                         !["geographic_plausibility"] = g,
                         !["scholarly_support"] = sch] :
        t \in {0, 75}, g \in {0, 100}, sch \in {0, 50}}

ScoreIdle ==
    /\ family_name = ""
    /\ family_data = <<>>
    /\ scored = NotScored

InitRank ==
    /\ pc = "main"
    /\ \E ps \in [1..NumFamilies -> RankProfiles] :
          LANGUAGE_FAMILIES = [i \in 1..NumFamilies |->
                                 [name |-> FamilyNames[i], data |-> ps[i]]]
    /\ ranked = <<>>
    /\ gap = RInt(0)
    /\ control_ranked = <<>>
    /\ ablation_results = <<>>
    /\ verdict = [line |-> "", critical |-> <<>>]
    /\ ScoreIdle
    /\ EnginesIdle

\* LINEAR_A_STATISTICAL_CONTROLS.py, Test 1
RunBaselineComparison ==
    /\ pc = "main"
    /\ ranked' = baseline_ranked(LANGUAGE_FAMILIES)
    /\ gap' = baseline_gap(ranked')
    /\ pc' = "baseline_done"
    /\ UNCHANGED <<LANGUAGE_FAMILIES, control_ranked, ablation_results, verdict,
                   scoreVars, engineVars>>

\* LINEAR_A_STATISTICAL_CONTROLS.py, Test 2
RunAblationAnalysis ==
    /\ pc = "baseline_done"
    /\ \E full \in {score_family("Hurro-Urartian",
                                  Lookup(LANGUAGE_FAMILIES, "Hurro-Urartian"))},
          scored_items \in {score_items(LANGUAGE_FAMILIES)} :
            ablation_results' = ablation_rows(full, scored_items)
    /\ verdict' = ablation_verdict(ablation_results')
    /\ pc' = "ablation_done"
    /\ UNCHANGED <<LANGUAGE_FAMILIES, ranked, gap, control_ranked, scoreVars, engineVars>>

\* LINEAR_A_CONTROL_VALIDATION.py, Test B of the Linear B control
RunLinearBControl ==
    /\ pc = "main"
    /\ control_ranked' = control_ranking(LANGUAGE_FAMILIES)
    /\ pc' = "control_done"
    /\ UNCHANGED <<LANGUAGE_FAMILIES, ranked, gap, ablation_results, verdict,
                   scoreVars, engineVars>>

NextRank ==
    \/ RunBaselineComparison
    \/ RunAblationAnalysis
    \/ RunLinearBControl

SpecRank == InitRank /\ [][NextRank]_vars

---------------------------------------------------------------------------
(* Properties of the ranking and of the ablation (SpecRank).               *)

\* ranked is in descending order of overall score
Descending(rk) ==
    \A i, j \in 1..Len(rk) : i < j => RLe(rk[j].overall, rk[i].overall)

\* position of a name in a sequence of names
IndexIn(names, n) == CHOOSE i \in 1..Len(names) : names[i] = n

\* items with equal overall score appear in the order given by names
TiesFollow(rk, names) ==
    \A i, j \in 1..Len(rk) :
        (i < j /\ rk[i].overall = rk[j].overall)
            => IndexIn(names, rk[i].name) < IndexIn(names, rk[j].name)

\* the names of the table in table order, and with the control appended
TableNames == [i \in 1..Len(LANGUAGE_FAMILIES) |-> LANGUAGE_FAMILIES[i].name]
ControlNames == Append(TableNames, "Linear_B_Control")

C9_MeanWithout(scores, drop_dim) ==
    RDivInt(RSub(RSumSeq([i \in 1..Len(DIMS) |-> scores[DIMS[i]]]), scores[drop_dim]),
            Len(DIMS) - 1)

\* C9: the row of dimension d has still_first true exactly when the leader
\* of the baseline ranking is also first once every candidate's overall is
\* the mean of its seven scores other than d.  (Ties are read in the code's
\* favour: a true flag needs the leader to be at least level with everyone,
\* a false flag needs someone at least level with the leader.)
C9_StillLeadingIsBaselineLeader ==
    pc = "ablation_done" =>
        \A r \in 1..Len(ablation_results) :
            LET d == ablation_results[r].drop_dim
                leader == C9_MeanWithout(ranked[1].scores, d)
                rivals == {C9_MeanWithout(ranked[i].scores, d) : i \in 2..Len(ranked)}
            IN  /\ ablation_results[r].still_first
                     => \A x \in rivals : RLe(x, leader)
                /\ ~ablation_results[r].still_first
                     => \E x \in rivals : RLe(leader, x)

\* the dimensions whose exclusion flipped the leader, by the ablation rows
C10_Flipped ==
    {ablation_results[r].drop_dim :
        r \in {q \in 1..Len(ablation_results) : ~ablation_results[q].still_first}}

\* C10: the verdict is ROBUST iff no exclusion flips the leader, and when
\* some exclusion does, the verdict is FRAGILE and names every such dimension.
C10_VerdictRobustOrFragile ==
    pc = "ablation_done" =>
        /\ (verdict.line = "ROBUST") <=> (C10_Flipped = {})
        /\ C10_Flipped # {} =>
              /\ verdict.line = "FRAGILE"
              /\ {verdict.critical[i] : i \in 1..Len(verdict.critical)} = C10_Flipped

\* the full eight-dimension overall score of the candidate called n
C11_Full(n) == ranked[IndexIn([i \in 1..Len(ranked) |-> ranked[i].name], n)].overall

\* the dimensions on which every candidate scores 0
C11_ZeroDims == {d \in Dimensions : \A i \in 1..Len(ranked) : ranked[i].scores[d] = RInt(0)}

C28_ScoredAlone == score_family_cv("Linear_B", LINEAR_B_CONTROL, TRUE)

\* C28: the Vocabulary score and the overall score of the Linear B control
\* in the full ranking (Test B) are the ones it has when scored alone
\* (Test A).
C28_ControlSameInEveryTest ==
    pc = "control_done" =>
        \A i \in 1..Len(control_ranked) :
            control_ranked[i].name = "Linear_B_Control" =>
                /\ control_ranked[i].scores["Vocabulary"]
                      = C28_ScoredAlone.scores["Vocabulary"]
                /\ control_ranked[i].overall = C28_ScoredAlone.overall

---------------------------------------------------------------------------
(* TEST 3 of LINEAR_A_STATISTICAL_CONTROLS.py: run_bootstrap_test.  The    *)
(* dicts keyed by family are sequences of items in the table's order.      *)

\* the largest n_iterations the trial loop is run for, and the largest one
\* the table of intervals is computed for
MaxTrials == 3
MaxIterations == 41

\* family_dim_scores.items(): list(scores.values()) of every family
dim_scores_of(scored_items) ==
    [i \in 1..Len(scored_items) |->
        [name |-> scored_items[i].name,
         dims |-> [k \in 1..Len(DIMS) |-> scored_items[i].scores[DIMS[k]]]]]

\* n_dims
n_dims_of(fds) ==
    Len(fds[CHOOSE i \in 1..Len(fds) : fds[i].name = "Hurro-Urartian"].dims)

\* resampled with every family's own first D dimension scores in place of
\* the ones at the drawn indices
resampled_in_place(dims, idx) == [k \in 1..Len(idx) |-> dims[k]]

\* resampled = [dims[i] for i in indices]
resampled(dims, idx) == [k \in 1..Len(idx) |-> dims[idx[k] + 1]]

\* how far the mean of resampled is from 100, instead of the mean
trial_shortfall(dims, idx) ==
    RSub(RInt(100), RDivInt(RSumSeq(resampled(dims, idx)), Len(resampled(dims, idx))))

\* avg = sum(resampled) / len(resampled)
trial_avg(dims, idx) ==
    RDivInt(RSumSeq(resampled(dims, idx)), Len(resampled(dims, idx)))

\* iter_scores.items() of a trial that drew idx
iter_scores_of(fds, idx) ==
    [i \in 1..Len(fds) |->
        [name |-> fds[i].name, overall |-> trial_avg(fds[i].dims, idx)]]

\* whether the trial ranks Hurro-Urartian first
hurrian_first(its) == sorted_desc(its)[1].name = "Hurro-Urartian"

\* bootstrap_scores with the trial's averages appended
appended_scores(bs, its) ==
    [i \in 1..Len(bs) |->
        [name |-> bs[i].name, trials |-> Append(bs[i].trials, its[i].overall)]]

\* the first n numbers of xs as they stand
unsorted_upto(xs, n) == SubSeq(xs, 1, n)

\* the first n numbers of xs in ascending order: at place k stands the
\* number that has fewer than k smaller ones and at least k that are not
\* larger
sorted_asc_upto(xs, n) ==
    [k \in 1..n |->
        CHOOSE x \in {xs[i] : i \in 1..n} :
            /\ Cardinality({j \in 1..n : RLt(xs[j], x)}) < k
            /\ k <= Cardinality({j \in 1..n : RLe(xs[j], x)})]

\* sorted(xs) for a list of numbers
sorted_asc(xs) == sorted_asc_upto(xs, Len(xs))

\* int(permille/1000 * n)
percentile_index(permille, n) == (permille * n) \div 1000

\* int(0.025 * n_iterations), int(0.975 * n_iterations)
ci_low_index(n) == percentile_index(25, n)
ci_high_index(n) == percentile_index(975, n)

\* min(scores), max(scores) of a non-empty list
min_of(xs) == CHOOSE x \in {xs[i] : i \in 1..Len(xs)} :
                \A i \in 1..Len(xs) : RLe(x, xs[i])
max_of(xs) == CHOOSE x \in {xs[i] : i \in 1..Len(xs)} :
                \A i \in 1..Len(xs) : RLe(xs[i], x)

\* one line of the table of intervals
interval_row(name, trials, n) ==
    LET scores == sorted_asc(trials)
    IN  [name |-> name,
         mean |-> RDivInt(RSumSeq(scores), Len(scores)),
         ci_low |-> scores[ci_low_index(n) + 1],
         ci_high |-> scores[ci_high_index(n) + 1],
         lo |-> min_of(scores),
         hi |-> max_of(scores)]

\* a report that is empty, with win_pct 0, when there was no trial
bootstrap_report_guarded(bs, wins, n) ==
    [err |-> "",
     rows |-> IF n = 0 THEN <<>>
              ELSE [i \in 1..Len(bs) |-> interval_row(bs[i].name, bs[i].trials, n)],
     win_pct |-> IF n = 0 THEN RInt(0) ELSE Rat(wins * 100, n)]

\* what run_bootstrap_test reports: with no trial, the mean that orders the
\* table divides by zero
bootstrap_report_of(bs, wins, n) ==
    IF n = 0
    THEN [err |-> "ZeroDivisionError", rows |-> <<>>, win_pct |-> RInt(0)]
    ELSE [err |-> "",
          rows |-> [i \in 1..Len(bs) |-> interval_row(bs[i].name, bs[i].trials, n)],
          win_pct |-> Rat(wins * 100, n)]

\* the index lists the model draws: D indices in 0..D-1 that start at a and
\* advance by step, modulo D (step 0 repeats one index D times)
BootStarts == {0, 1, 4}
BootSteps == {0, 1, 2}
BootDraws ==
    {[k \in 1..Len(DIMS) |-> (a + (k - 1) * step) % Len(DIMS)] :
        a \in BootStarts, step \in BootSteps}

\* tables whose first family takes every profile of RankProfiles
BootTables ==
    {[i \in 1..NumFamilies |->
        [name |-> FamilyNames[i],
         data |-> IF i = 1 THEN p
                  ELSE [BaseProfile EXCEPT
                           !["timeline_fit"] = 75 * (i % 2),
                           !["geographic_plausibility"] = 100 * ((i + 1) % 2)]]] :
        p \in RankProfiles}

\* the ranking tests have not run; the table is given
RankResultsIdle ==
    /\ ranked = <<>>
    /\ gap = RInt(0)
    /\ control_ranked = <<>>
    /\ ablation_results = <<>>
    /\ verdict = [line |-> "", critical |-> <<>>]

InitBoot ==
    /\ pc = "bootstrap_start"
    /\ LANGUAGE_FAMILIES \in BootTables
    /\ n_iterations \in 0..MaxTrials
    /\ family_dim_scores = <<>>
    /\ indices = <<>>
    /\ iter_scores = <<>>
    /\ bootstrap_scores = <<>>
    /\ hurrian_wins = 0
    /\ bootstrap_report = <<>>
    /\ RankResultsIdle
    /\ ScoreIdle
    /\ AfterBootIdle

\* lines 457-468: score every family, start the lists
BootstrapSetup ==
    /\ pc = "bootstrap_start"
    /\ family_dim_scores' = dim_scores_of(score_items(LANGUAGE_FAMILIES))
    /\ bootstrap_scores' = [i \in 1..Len(LANGUAGE_FAMILIES) |->
                              [name |-> LANGUAGE_FAMILIES[i].name, trials |-> <<>>]]
    /\ hurrian_wins' = 0
    /\ pc' = IF n_iterations = 0 THEN "bootstrap_report" ELSE "bootstrap_loop"
    /\ UNCHANGED <<n_iterations, indices, iter_scores, bootstrap_report,
                   rankVars, scoreVars, afterBootVars>>

\* lines 472-486: one trial that drew the index list idx
bootstrap_trial(idx) ==
    /\ pc = "bootstrap_loop"
    /\ Len(idx) = n_dims_of(family_dim_scores)
    /\ indices' = idx
    /\ \E its \in {iter_scores_of(family_dim_scores, idx)} :
         /\ iter_scores' = its
         /\ bootstrap_scores' = appended_scores(bootstrap_scores, its)
         /\ hurrian_wins' = hurrian_wins + (IF hurrian_first(its) THEN 1 ELSE 0)
    /\ pc' = IF Len(bootstrap_scores[1].trials) + 1 = n_iterations
             THEN "bootstrap_report" ELSE "bootstrap_loop"
    /\ UNCHANGED <<n_iterations, family_dim_scores, bootstrap_report,
                   rankVars, scoreVars, perturbVars, lexVars, bayesVars>>

\* lines 470-486: one trial, with the index list idx drawn by random.randint
BootstrapTrial ==
    /\ \E idx \in BootDraws : bootstrap_trial(idx)
    /\ UNCHANGED processVars

\* lines 488-520: the table of intervals and win_pct
BootstrapReport ==
    /\ pc = "bootstrap_report"
    /\ bootstrap_report' = bootstrap_report_of(bootstrap_scores, hurrian_wins, n_iterations)
    /\ pc' = "bootstrap_done"
    /\ UNCHANGED <<n_iterations, family_dim_scores, indices, iter_scores,
                   bootstrap_scores, hurrian_wins, rankVars, scoreVars, afterBootVars>>

NextBoot ==
    \/ BootstrapSetup
    \/ BootstrapTrial
    \/ BootstrapReport

SpecBoot == InitBoot /\ [][NextBoot]_vars

\* a profile whose four linguistic dimensions score 0, a middle value or
\* 100 (level 0, 1, 2) and whose four contextual scores are 0, 50 or 100
DominanceProfile(level, context) ==
    [BaseProfile EXCEPT
        !["vowels"] = [LINEAR_A["vowels"] EXCEPT
                          !["e"] = IF level < 2 THEN 5 ELSE @,
                          !["i"] = IF level < 1 THEN 10 ELSE @],
        !["features"] = [f \in Features |->
                            IF level = 1 THEN f # FeatureNames[1] ELSE level = 2],
        !["case_similarity"] = [c \in Cases |-> 50 * level],
        !["vocabulary_matches"] = [w \in Vocab |-> 50 * level],
        !["geographic_plausibility"] = 50 * context,
        !["timeline_fit"] = 50 * context,
        !["scholarly_support"] = 50 * context,
        !["religious_parallel"] = 50 * context]

\* tables in which one family is above another in every dimension, in every
\* table order; the same with the lowest family level with the middle one
\* in the linguistic dimensions; the table of equal families
DominanceTables ==
    {[i \in 1..NumFamilies |->
        [name |-> FamilyNames[i],
         data |-> DominanceProfile(
                     IF shape = "equal" \/ (shape = "mixed" /\ (i + s) % 3 = 0)
                     THEN 1 ELSE (i + s) % 3,
                     IF shape = "equal" THEN 1 ELSE (i + s) % 3)]] :
        s \in 0..2, shape \in {"all", "mixed", "equal"}}

InitDominance ==
    /\ pc = "bootstrap_start"
    /\ LANGUAGE_FAMILIES \in DominanceTables
    /\ n_iterations \in 0..MaxTrials
    /\ family_dim_scores = <<>>
    /\ indices = <<>>
    /\ iter_scores = <<>>
    /\ bootstrap_scores = <<>>
    /\ hurrian_wins = 0
    /\ bootstrap_report = <<>>
    /\ RankResultsIdle
    /\ ScoreIdle
    /\ AfterBootIdle

\* run_bootstrap_test on the tables of DominanceTables
SpecDominance == InitDominance /\ [][NextBoot]_vars

\* candidate a scores at least as much as candidate b in every dimension
C30_Dominates(a, b) ==
    \A k \in 1..Len(DIMS) :
        RLe(family_dim_scores[b].dims[k], family_dim_scores[a].dims[k])

\* candidate a scores more than every other candidate in every dimension
C30_DominatesAllStrictly(a) ==
    \A b \in 1..Len(family_dim_scores) : \A k \in 1..Len(DIMS) :
        b # a => RLt(family_dim_scores[b].dims[k], family_dim_scores[a].dims[k])

\* the trials run so far
C30_Trials == Len(bootstrap_scores[1].trials)

C26_DegenerateRaises ==
    /\ pc \in {"bootstrap_loop", "bootstrap_report", "bootstrap_done"} =>
          \A i \in 1..Len(family_dim_scores) :
              Len(family_dim_scores[i].dims) = Len(DIMS)
    /\ pc = "bootstrap_done" /\ n_iterations = 0 =>
          /\ bootstrap_report.err = "ZeroDivisionError"
          /\ bootstrap_report.rows = <<>>
          /\ \A i \in 1..Len(bootstrap_scores) : bootstrap_scores[i].trials = <<>>

\* the call with no trial has ended
C26_Witness ==
    /\ pc = "bootstrap_done"
    /\ n_iterations = 0
    /\ bootstrap_report.err # ""

\* the state in which the trial loop leaves run_bootstrap_test after n trials
\* that drew the index list A k times and then the index list B
BootHistory(n, k, A, B) == [t \in 1..n |-> IF t <= k THEN A ELSE B]

\* the index lists of the histories
HistoryDraws == {d \in BootDraws : \A k \in 1..Len(d) : d[k] = d[1]}

InitReport ==
    /\ pc = "bootstrap_report"
    /\ LANGUAGE_FAMILIES \in {t \in BootTables : t[1].data["timeline_fit"] = 75
                                              /\ t[1].data["scholarly_support"] = 50}
    /\ n_iterations \in 1..MaxIterations
    /\ family_dim_scores = dim_scores_of(score_items(LANGUAGE_FAMILIES))
    /\ \E k \in 0..n_iterations, A \in HistoryDraws, B \in HistoryDraws :
         \E h \in {BootHistory(n_iterations, k, A, B)},
            itsA \in {iter_scores_of(family_dim_scores, A)},
            itsB \in {iter_scores_of(family_dim_scores, B)} :
              /\ indices = h[n_iterations]
              /\ iter_scores = IF n_iterations <= k THEN itsA ELSE itsB
              /\ bootstrap_scores =
                   [i \in 1..Len(LANGUAGE_FAMILIES) |->
                      [name |-> LANGUAGE_FAMILIES[i].name,
                       trials |-> [t \in 1..n_iterations |->
                                     IF t <= k THEN itsA[i].overall
                                     ELSE itsB[i].overall]]]
              /\ hurrian_wins = (IF hurrian_first(itsA) THEN k ELSE 0)
                                + (IF hurrian_first(itsB) THEN n_iterations - k ELSE 0)
    /\ bootstrap_report = <<>>
    /\ RankResultsIdle
    /\ ScoreIdle
    /\ AfterBootIdle

\* run_bootstrap_test from the end of its trial loop
SpecReport == InitReport /\ [][BootstrapReport]_vars

---------------------------------------------------------------------------
(* Properties of the bootstrap (SpecBoot, SpecReport).                     *)

\* a trial has been run
C12_TrialRun == pc \in {"bootstrap_loop", "bootstrap_report", "bootstrap_done"}
                /\ indices # <<>>

\* the dimension scores of the i-th family of the table, in score_family's order
C12_Dims(i) ==
    LET r == score_family(LANGUAGE_FAMILIES[i].name, LANGUAGE_FAMILIES[i].data)
    IN  [k \in 1..Len(DIMS) |-> r.scores[DIMS[k]]]

\* C12: in every bootstrap trial one list of D indices, each in 0..D-1, is
\* drawn and applied to all candidates: each candidate's trial score is the
\* mean of its own dimension scores at exactly those D indices.
C12_SameDrawForAll ==
    C12_TrialRun =>
        LET D == Len(DIMS)
        IN  /\ Len(indices) = D
            /\ \A k \in 1..D : indices[k] \in 0..(D - 1)
            /\ Len(iter_scores) = Len(LANGUAGE_FAMILIES)
            /\ \A i \in 1..Len(LANGUAGE_FAMILIES) :
                 \E dims \in {C12_Dims(i)} :
                   /\ iter_scores[i].name = LANGUAGE_FAMILIES[i].name
                   /\ iter_scores[i].overall =
                        RDivInt(RSumSeq([k \in 1..D |-> dims[indices[k] + 1]]), D)
                   /\ bootstrap_scores[i].trials[Len(bootstrap_scores[i].trials)]
                        = iter_scores[i].overall

\* a second trial whose draw repeats an index and leaves one out, for
\* candidates whose trial scores differ from their overall scores
C12_Witness ==
    /\ C12_TrialRun
    /\ Len(bootstrap_scores[1].trials) = 2
    /\ \E j, k \in 1..Len(indices) : j # k /\ indices[j] = indices[k]
    /\ \E j \in 1..Len(indices) : indices[j] # j - 1
    /\ \A i \in 1..Len(LANGUAGE_FAMILIES) :
         iter_scores[i].overall #
            score_family(LANGUAGE_FAMILIES[i].name, LANGUAGE_FAMILIES[i].data).overall
    /\ \E i, j \in 1..Len(iter_scores) : iter_scores[i].overall # iter_scores[j].overall

\* how many of the trial values xs satisfy lo <= x <= hi
C13_CountWithin(xs, lo, hi) ==
    Cardinality({t \in 1..Len(xs) : RLe(lo, xs[t]) /\ RLe(xs[t], hi)})

\* x is the value at 0-based place k of the sorted trial values xs
C13_IsOrderStatistic(xs, k, x) ==
    /\ \E t \in 1..Len(xs) : xs[t] = x
    /\ Cardinality({t \in 1..Len(xs) : RLt(xs[t], x)}) <= k
    /\ Cardinality({t \in 1..Len(xs) : RLe(xs[t], x)}) >= k + 1

---------------------------------------------------------------------------
(* SIGN-READING PERTURBATION TEST (run_perturbation_test).                 *)
(*                                                                         *)
(* The test copies dicts and writes into the copies, so the dicts are      *)
(* modelled as objects: heap maps an object to its contents, and a field   *)
(* that holds a dict holds the object, not its contents.                   *)

\* the largest n_trials the model runs
MaxPerturbTrials == 1

\* an object: the profile of the i-th family of a root (section ""), or one
\* of the dicts that profile holds
Obj(root, i, section) == [root |-> root, family |-> i, section |-> section]

\* the fields of a profile whose values are dicts
DictKeys == {"vowels", "hattusha_vowels", "features", "case_similarity",
             "vocabulary_matches"}
\* the fields of LINEAR_A, all of them containers
TargetKeys == {"vowels", "features", "case_endings", "vocabulary"}

\* LANGUAGE_FAMILIES[name] for the i-th name, and the dicts a trial creates
\* for the i-th family (a trial's dicts are dropped when the next one starts)
TableRef(i) == Obj("LANGUAGE_FAMILIES", i, "")
TrialRef(i, section) == Obj("perturbed_families", i, section)
TargetRef(section) == Obj("LINEAR_A", 0, section)

Objects ==
    {Obj(r, i, s) : r \in {"LANGUAGE_FAMILIES", "perturbed_families"},
                    i \in 1..NumFamilies, s \in DictKeys \cup {""}}
    \cup {TargetRef(s) : s \in TargetKeys \cup {""}}

\* the objects of the module after import: the table, its profiles' dicts
\* and LINEAR_A; the other objects do not exist yet
heap_of(table) ==
    [o \in Objects |->
        IF o.root = "LANGUAGE_FAMILIES" /\ o.family <= Len(table)
        THEN LET fd == table[o.family].data
             IN  IF o.section = ""
                 THEN [k \in DOMAIN fd |->
                          IF k \in DictKeys THEN Obj(o.root, o.family, k) ELSE fd[k]]
                 ELSE IF o.section \in DOMAIN fd THEN fd[o.section] ELSE <<>>
        ELSE IF o.root = "LINEAR_A"
        THEN IF o.section = "" THEN [k \in TargetKeys |-> TargetRef(k)]
             ELSE LINEAR_A[o.section]
        ELSE <<>>]

\* the contents of a profile object with the contents of the dicts it holds
profile_value(h, ref) ==
    [k \in DOMAIN h[ref] |-> IF k \in DictKeys THEN h[h[ref][k]] ELSE h[ref][k]]

\* LANGUAGE_FAMILIES.items() as the module-level table now reads
table_value(h, names) ==
    [i \in 1..Len(names) |-> [name |-> names[i], data |-> profile_value(h, TableRef(i))]]

\* LINEAR_A as it now reads
target_value(h) == [k \in TargetKeys |-> h[h[TargetRef("")][k]]]

\* dict(x) that hands back x itself instead of a copy
dict_shared(h, src, dst) == [heap |-> h, ref |-> src]

\* dict(x): a new object dst with the items of src (the values are shared)
dict_copy(h, src, dst) == [heap |-> [h EXCEPT ![dst] = h[src]], ref |-> dst]

perturbation_levels == <<Rat(1, 10), Rat(3, 20), Rat(1, 5), Rat(1, 4), Rat(3, 10)>>

\* list(LINEAR_A["features"].keys())
feature_names_of(h) ==
    SelectSeq(FeatureNames, LAMBDA f : f \in DOMAIN h[h[TargetRef("")]["features"]])

\* int(x) for x >= 0
int_of(x) == x.num \div x.den

\* n_flip = int(len(feature_names) * perturb_pct)
n_flip_of(len, perturb_pct) == int_of(RMul(RInt(len), perturb_pct))

\* random.sample(range(len), n): n distinct indices; the model draws the
\* runs start, start + 1, ... (mod len)
sample_of(len, n, start) == [k \in 1..n |-> (start + k - 1) % len]

RECURSIVE flipped(_, _, _, _)
\* p_features after the loop over the first n entries of idxs
flipped(p_features, names, idxs, n) ==
    IF n = 0 THEN p_features
    ELSE LET prev == flipped(p_features, names, idxs, n - 1)
             feat == names[idxs[n] + 1]
         IN  IF feat \in DOMAIN prev
             THEN [prev EXCEPT ![feat] = ~prev[feat]]
             ELSE prev

\* v + noise as it is, without the clamp
unclamped(v) == v

\* max(0, min(100, v))
clamped(v) == IF v < 0 THEN 0 ELSE IF v > 100 THEN 100 ELSE v

\* the position of key among the keys of d, in the order of keys
key_position(d, keys, key) ==
    Cardinality({j \in 1..Len(keys) :
        /\ keys[j] \in DOMAIN d
        /\ j <= CHOOSE m \in 1..Len(keys) : keys[m] = key})

\* a dict after the noise loop: noise[k] is the draw for its k-th key
noised(d, keys, noise) ==
    [w \in DOMAIN d |-> clamped(d[w] + noise[key_position(d, keys, w)])]

\* the draws of random.gauss for count keys: n, -n, n, ...
gauss_draws(count, n) == [k \in 1..count |-> IF k % 2 = 1 THEN n ELSE -n]

\* the draws the model makes for one family: where the sample starts and
\* the size of the noise
PerturbDraws ==
    {[start |-> 0, noise |-> 5], [start |-> 1, noise |-> -5],
     [start |-> 2, noise |-> 10]}

\* lines 660-688 for the i-th family
perturb_family(h, i, perturb_pct, draw) ==
    LET names == feature_names_of(h)
        fdata == TableRef(i)
        p_data == dict_copy(h, fdata, TrialRef(i, ""))
        p_features == dict_copy(p_data.heap, p_data.heap[fdata]["features"],
                                TrialRef(i, "features"))
        n_flip == n_flip_of(Len(names), perturb_pct)
        idxs == sample_of(Len(names), n_flip, draw.start)
        h1 == [p_features.heap EXCEPT
                 ![p_features.ref] = flipped(@, names, idxs, n_flip)]
        h2 == [h1 EXCEPT ![p_data.ref]["features"] = p_features.ref]
        p_vocab == dict_copy(h2, h2[fdata]["vocabulary_matches"],
                             TrialRef(i, "vocabulary_matches"))
        h3 == [p_vocab.heap EXCEPT
                 ![p_vocab.ref] =
                    noised(@, VocabularyItems,
                           gauss_draws(Cardinality(DOMAIN @), draw.noise))]
        h4 == [h3 EXCEPT ![p_data.ref]["vocabulary_matches"] = p_vocab.ref]
        p_cases == dict_copy(h4, h4[fdata]["case_similarity"],
                             TrialRef(i, "case_similarity"))
        h5 == [p_cases.heap EXCEPT
                 ![p_cases.ref] =
                    noised(@, CaseEndings,
                           gauss_draws(Cardinality(DOMAIN @), -draw.noise))]
        h6 == [h5 EXCEPT ![p_data.ref]["case_similarity"] = p_cases.ref]
    IN  [heap |-> h6, p_data |-> p_data.ref, flip_indices |-> idxs]

\* scores_this.items() for the perturbed profiles
scores_this_of(h, pf) ==
    [i \in 1..Len(pf) |->
        LET r == score_family(pf[i].name, profile_value(h, pf[i].data))
        IN  [name |-> pf[i].name, err |-> r.err, overall |-> r.overall]]

\* scores_this.get("Hurro-Urartian", 0)
hurrian_score_of(st) ==
    LET at == {i \in 1..Len(st) : st[i].name = "Hurro-Urartian"}
    IN  IF at = {} THEN RInt(0) ELSE st[CHOOSE i \in at : TRUE].overall

\* the heap once the dicts of a trial are dropped
dropped_trial(h) ==
    [o \in Objects |-> IF o.root = "perturbed_families" THEN <<>> ELSE h[o]]

\* all_results[perturb_pct] = (h_mean, win_pct)
level_result(perturb_pct, scores, wins, n) ==
    [perturb_pct |-> perturb_pct,
     h_mean |-> RDivInt(RSumSeq(scores), Len(scores)),
     win_pct |-> RMul(Rat(wins, n), RInt(100))]

\* the VERDICT line from worst_case = all_results[0.30]
perturbation_verdict(results) ==
    LET worst_case ==
            results[CHOOSE i \in 1..Len(results) :
                        results[i].perturb_pct = Rat(3, 10)]
    IN  IF RLe(RInt(80), worst_case.win_pct) THEN "ROBUST"
        ELSE IF RLe(RInt(60), worst_case.win_pct) THEN "MODERATELY ROBUST"
        ELSE "FRAGILE"

\* the profiles of the first family: features all present or one absent,
\* match values in the middle or at an end of [0,100]
PerturbProfiles ==
    {[BaseProfile EXCEPT
        !["features"] = f,
        !["vocabulary_matches"] = [w \in Vocab |-> v],
        !["case_similarity"] = [c \in Cases |-> 100 - v]] :
        f \in {BaseProfile["features"],
               Without(BaseProfile["features"], FeatureNames[1])},
        v \in {0, 50}}

PerturbTables ==
    {[i \in 1..NumFamilies |->
        [name |-> FamilyNames[i],
         data |-> IF i = 1 THEN p
                  ELSE [BaseProfile EXCEPT
                           !["timeline_fit"] = 75 * (i % 2),
                           !["geographic_plausibility"] = 100 * ((i + 1) % 2)]]] :
        p \in PerturbProfiles}

InitPerturb ==
    /\ pc = "perturb_start"
    /\ LANGUAGE_FAMILIES \in PerturbTables
    /\ n_trials \in 0..MaxPerturbTrials
    /\ heap = heap_of(LANGUAGE_FAMILIES)
    /\ families_before = LANGUAGE_FAMILIES
    /\ perturb_level = 0
    /\ perturbed_families = <<>>
    /\ flip_indices = <<>>
    /\ hurrian_scores_list = <<>>
    /\ perturb_wins = 0
    /\ all_results = <<>>
    /\ perturb_verdict = ""
    /\ RankResultsIdle
    /\ ScoreIdle
    /\ BootIdle
    /\ AfterPerturbIdle

\* the names of the table, in its order
family_names == [i \in 1..Len(LANGUAGE_FAMILIES) |-> LANGUAGE_FAMILIES[i].name]

\* lines 642-653: enter the first perturbation level
PerturbStart ==
    /\ pc = "perturb_start"
    /\ perturb_level' = 1
    /\ all_results' = <<>>
    /\ perturb_wins' = 0
    /\ hurrian_scores_list' = <<>>
    /\ pc' = IF n_trials = 0 THEN "perturb_level_end" ELSE "perturb_family"
    /\ UNCHANGED <<n_trials, heap, families_before, perturbed_families,
                   flip_indices, perturb_verdict, rankVars, scoreVars, bootVars, afterPerturbVars>>

\* lines 660-688: the perturbed copy of the next family, given its draws
perturb_next_family(draw) ==
    /\ pc = "perturb_family"
    /\ \E i \in {Len(perturbed_families) + 1} :
         \E r \in {perturb_family(heap, i, perturbation_levels[perturb_level], draw)} :
           /\ heap' = r.heap
           /\ flip_indices' = r.flip_indices
           /\ perturbed_families' =
                 Append(perturbed_families,
                        [name |-> LANGUAGE_FAMILIES[i].name, data |-> r.p_data])
           /\ LANGUAGE_FAMILIES' = table_value(r.heap, family_names)
           /\ pc' = IF i = Len(LANGUAGE_FAMILIES) THEN "perturb_score"
                    ELSE "perturb_family"
    /\ UNCHANGED <<n_trials, families_before, perturb_level, hurrian_scores_list,
                   perturb_wins, all_results, perturb_verdict,
                   ranked, gap, control_ranked, ablation_results, verdict,
                   scoreVars, bootVars, lexVars, bayesVars>>

\* lines 659-688: the perturbed copy of the next family of the table
PerturbFamily ==
    /\ \E draw \in PerturbDraws : perturb_next_family(draw)
    /\ UNCHANGED processVars

\* lines 690-700, and line 657 of the next trial: score the perturbed
\* profiles, record the trial, drop its dicts
PerturbScore ==
    /\ pc = "perturb_score"
    /\ \E st \in {scores_this_of(heap, perturbed_families)} :
         IF \E i \in 1..Len(st) : st[i].err # ""
         THEN /\ pc' = "perturb_raised"
              /\ UNCHANGED <<hurrian_scores_list, perturb_wins, heap,
                             perturbed_families>>
         ELSE /\ hurrian_scores_list' = Append(hurrian_scores_list, hurrian_score_of(st))
              /\ perturb_wins' = perturb_wins
                    + (IF sorted_desc(st)[1].name = "Hurro-Urartian" THEN 1 ELSE 0)
              /\ heap' = dropped_trial(heap)
              /\ perturbed_families' = <<>>
              /\ pc' = IF Len(hurrian_scores_list) + 1 = n_trials
                       THEN "perturb_level_end" ELSE "perturb_family"
    /\ UNCHANGED <<n_trials, families_before, perturb_level, flip_indices,
                   all_results, perturb_verdict, rankVars, scoreVars, bootVars, afterPerturbVars>>

\* lines 702-708, and 652-653 of the next level
PerturbLevelEnd ==
    /\ pc = "perturb_level_end"
    /\ IF n_trials = 0
       THEN /\ pc' = "perturb_raised"
            /\ UNCHANGED <<all_results, perturb_level, perturb_wins,
                           hurrian_scores_list>>
       ELSE /\ all_results' =
                  Append(all_results,
                         level_result(perturbation_levels[perturb_level],
                                      hurrian_scores_list, perturb_wins, n_trials))
            /\ perturb_wins' = 0
            /\ hurrian_scores_list' = <<>>
            /\ IF perturb_level = Len(perturbation_levels)
               THEN pc' = "perturb_summary" /\ UNCHANGED perturb_level
               ELSE pc' = "perturb_family" /\ perturb_level' = perturb_level + 1
    /\ UNCHANGED <<n_trials, heap, families_before, perturbed_families,
                   flip_indices, perturb_verdict, rankVars, scoreVars, bootVars, afterPerturbVars>>

\* lines 710-723
PerturbSummary ==
    /\ pc = "perturb_summary"
    /\ perturb_verdict' = perturbation_verdict(all_results)
    /\ pc' = "perturb_done"
    /\ UNCHANGED <<n_trials, heap, families_before, perturb_level,
                   perturbed_families, flip_indices, hurrian_scores_list,
                   perturb_wins, all_results, rankVars, scoreVars, bootVars, afterPerturbVars>>

NextPerturb ==
    \/ PerturbStart
    \/ PerturbFamily
    \/ PerturbScore
    \/ PerturbLevelEnd
    \/ PerturbSummary

SpecPerturb == InitPerturb /\ [][NextPerturb]_vars

---------------------------------------------------------------------------
(* Properties of the perturbation test (SpecPerturb).                      *)

\* round(x) for x >= 0: to the nearest integer, halves to the even one
C14_Round(x) ==
    LET fl == x.num \div x.den
        twice == 2 * (x.num - fl * x.den)
    IN  IF twice > x.den \/ (twice = x.den /\ fl % 2 = 1) THEN fl + 1 ELSE fl

\* the features whose value in the perturbed copy of the i-th family is not
\* the value the table has
C14_Flipped(i) ==
    LET p_features == heap[heap[perturbed_families[i].data]["features"]]
    IN  {f \in DOMAIN p_features : p_features[f] # families_before[i].data["features"][f]}

\* C14: a perturbation at rate r flips round(r * feature_count) distinct
\* features of each candidate.
C14_FlipsRoundedCount ==
    \A i \in 1..Len(perturbed_families) :
        Cardinality(C14_Flipped(i)) =
            C14_Round(RMul(RInt(Len(feature_names_of(heap))),
                           perturbation_levels[perturb_level]))

\* a trial's copies differ from the table in a feature, a vocabulary match
\* and a case similarity of every family
C15_CopiesPerturbed ==
    /\ pc = "perturb_score"
    /\ \A i \in 1..Len(perturbed_families) :
         LET p == profile_value(heap, perturbed_families[i].data)
             fd == families_before[i].data
         IN  /\ p["features"] # fd["features"]
             /\ p["vocabulary_matches"] # fd["vocabulary_matches"]
             /\ p["case_similarity"] # fd["case_similarity"]

\* C15: run_perturbation_test leaves LANGUAGE_FAMILIES and LINEAR_A as they
\* were when it was called: the table reads the same, its dicts are the same
\* objects with the same contents, and so are the dicts of LINEAR_A.
C15_TablesNotMutated ==
    /\ LANGUAGE_FAMILIES = families_before
    /\ target_value(heap) = LINEAR_A
    /\ \A o \in Objects :
         o.root # "perturbed_families" => heap[o] = heap_of(families_before)[o]

C15_Witness == C15_CopiesPerturbed

\* the perturbed profile of the i-th family of the trial, with its dicts
C27_Perturbed(i) == profile_value(heap, perturbed_families[i].data)

\* a score that was computed lies in [0,100]
C27_InRange(r) == r.err = "" => RLe(RInt(0), r.val) /\ RLe(r.val, RInt(100))

\* C27: whatever noise is drawn, every perturbed vocabulary-match and
\* case-similarity value lies in [0,100], and so do the Case system and
\* Vocabulary scores of the perturbed profile.
C27_PerturbedInRange ==
    \A i \in 1..Len(perturbed_families) :
        /\ \A w \in DOMAIN C27_Perturbed(i)["vocabulary_matches"] :
              C27_Perturbed(i)["vocabulary_matches"][w] \in 0..100
        /\ \A c \in DOMAIN C27_Perturbed(i)["case_similarity"] :
              C27_Perturbed(i)["case_similarity"][c] \in 0..100
        /\ C27_InRange(score_cases(C27_Perturbed(i)))
        /\ C27_InRange(score_vocabulary(C27_Perturbed(i)))

\* a trial whose noise (never 0 in the model) was cut at both ends: a
\* vocabulary match left at 0 and a case similarity left at 100
C27_Witness ==
    /\ pc = "perturb_score"
    /\ \E i \in 1..Len(perturbed_families) :
         /\ \E w \in DOMAIN C27_Perturbed(i)["vocabulary_matches"] :
              C27_Perturbed(i)["vocabulary_matches"][w] = 0
         /\ \E c \in DOMAIN C27_Perturbed(i)["case_similarity"] :
              C27_Perturbed(i)["case_similarity"][c] = 100

---------------------------------------------------------------------------
(* LEXICAL CHANCE-MATCH CONTROL (run_lexical_control).                     *)
(*                                                                         *)
(* A word is the sequence of its characters.                               *)

\* the largest n_pseudo the model runs
MaxPseudo == 3
\* how many of the 9 Linear A words the model keeps
NumLaWords == 3

consonants == <<"", "d", "j", "k", "m", "n", "p", "q", "r", "s", "t", "w", "z">>
vowels_list == <<"a", "i", "u", "e", "o">>

hurrian_words ==
    << <<"a","t","t","a","i">>, <<"s","a","r","r","i">>, <<"u","n","e">>,
       <<"t","a","n","i">>, <<"a","m","e">>,
       <<"e","b","r","i">>, <<"e","n","n","i">>, <<"a","s","t","i">>,
       <<"n","e","r","i">>, <<"k","e","l","u">>,
       <<"a","r","n","i">>, <<"t","a","h","e">>, <<"s","e","n","a">>,
       <<"p","u","r","u">>, <<"h","a","w","u">>,
       <<"t","i","w","i">>, <<"k","u","m","m","e">>, <<"a","l","l","a","i">>,
       <<"h","u","r","r","i">>, <<"s","i","m","i","k","i">> >>

LaWords ==
    << <<"a","t","a","i">>, <<"s","a","s","a","r","a">>,
       <<"d","a","k","u","n","a">>, <<"i","d","a","m","a","t","e">>,
       <<"d","u","p","u","r","e">>, <<"u","n","a","k","a","n","a","s">>,
       <<"k","u","r","o">>, <<"i","p","i","n","a","m","a">>,
       <<"s","i","r","u","t","e">> >>

la_words == SubSeq(LaWords, 1, NumLaWords)

RECURSIVE pseudo_word_upto(_, _)
\* word after n syllables; syllables[k] is the (c, v) drawn for the k-th
pseudo_word_upto(syllables, n) ==
    IF n = 0 THEN <<>>
    ELSE LET c == syllables[n][1]
             v == syllables[n][2]
         IN  pseudo_word_upto(syllables, n - 1)
                \o (IF c = "" THEN <<v>> ELSE <<c, v>>)

\* generate_pseudo_word() with n_syl = Len(syllables)
generate_pseudo_word(syllables) == pseudo_word_upto(syllables, Len(syllables))

\* set(w[i:i+2] for i in range(len(w)-1))
bigrams(w) == {<<w[i], w[i + 1]>> : i \in 1..(Len(w) - 1)}

phonetic_similarity(w1, w2) ==
    LET bg1 == bigrams(w1)
        bg2 == bigrams(w2)
        shared == Cardinality(bg1 \cap bg2)
    IN  IF bg1 = {} \/ bg2 = {} THEN RInt(0)
        ELSE Rat(shared, IF Cardinality(bg1) > Cardinality(bg2)
                         THEN Cardinality(bg1) ELSE Cardinality(bg2))

\* max(phonetic_similarity(w, h) for h in hurrian_words[:n]), n >= 1
best_upto(w, n) ==
    CHOOSE x \in {phonetic_similarity(w, hurrian_words[k]) : k \in 1..n} :
        \A k \in 1..n : RLe(phonetic_similarity(w, hurrian_words[k]), x)

\* sum(scores) / len(scores) for the best similarity of every word
mean_best(words) ==
    RDivInt(RSumSeq([i \in 1..Len(words) |-> best_upto(words[i], Len(hurrian_words))]),
            Len(words))

\* the syllables the model draws for one pseudo-word
PseudoWordDraws ==
    { << <<"t","a">>, <<"n","i">> >>,
      << <<"","a">>, <<"m","e">> >>,
      << <<"t","a">>, <<"t","a">> >>,
      << <<"","a">>, <<"","a">> >>,
      << <<"q","o">>, <<"q","o">>, <<"q","o">> >> }

\* the syllables that spell the first Linear A words
LaSyllables ==
    << << <<"","a">>, <<"t","a">>, <<"","i">> >>,
       << <<"s","a">>, <<"s","a">>, <<"r","a">> >>,
       << <<"d","a">>, <<"k","u">>, <<"n","a">> >>,
       << <<"","i">>, <<"d","a">>, <<"m","a">>, <<"t","e">> >> >>

\* the pseudo-lexicons the model draws, each with the mean it scores: two
\* drawn words in alternation, or the Linear A words themselves
LexiconDraws ==
    {[pseudo_words |-> ws, mean |-> mean_best(ws)] :
        ws \in {[k \in 1..Len(la_words) |->
                    generate_pseudo_word(IF k % 2 = 1 THEN d1 ELSE d2)] :
                    d1 \in PseudoWordDraws, d2 \in PseudoWordDraws}
               \cup {[k \in 1..Len(la_words) |->
                        generate_pseudo_word(
                            LaSyllables[((k - 1) % Len(LaSyllables)) + 1])]}}

\* above_actual counting only the means strictly above the actual mean
above_actual_strict(means, actual) ==
    Cardinality({i \in 1..Len(means) : RLt(actual, means[i])})

\* sum(1 for p in pseudo_means if p >= actual_mean)
above_actual_of(means, actual) ==
    Cardinality({i \in 1..Len(means) : RLe(actual, means[i])})

\* int(0.90 * n_pseudo)
percentile_90_index(n) == percentile_index(900, n)

\* int(0.95 * n_pseudo), int(0.99 * n_pseudo)
percentile_95_index(n) == percentile_index(950, n)
percentile_99_index(n) == percentile_index(990, n)

\* lines 588-628: p_value, the VERDICT line and the returned triple
lexical_statistics(means, actual, n) ==
    IF Len(means) = 0
    THEN [p_value |-> <<>>, verdict |-> "", result |-> [err |-> "ZeroDivisionError"]]
    ELSE LET pseudo_avg == RDivInt(RSumSeq(means), Len(means))
             pseudo_sorted == sorted_asc(means)
             percentile_95 == pseudo_sorted[percentile_95_index(n) + 1]
             percentile_99 == pseudo_sorted[percentile_99_index(n) + 1]
             p == Rat(above_actual_of(means, actual), n)
         IN  IF pseudo_avg = RInt(0)
             THEN [p_value |-> p, verdict |-> "",
                   result |-> [err |-> "ZeroDivisionError"]]
             ELSE [p_value |-> p,
                   verdict |-> IF RLt(percentile_99, actual) THEN "HIGHLY SIGNIFICANT"
                               ELSE IF RLt(percentile_95, actual) THEN "SIGNIFICANT"
                               ELSE "NOT significant",
                   result |-> [err |-> "", actual_mean |-> actual,
                               pseudo_avg |-> pseudo_avg, p_value |-> p]]

InitLex ==
    /\ pc = "lex_start"
    /\ n_pseudo \in 0..MaxPseudo
    /\ actual_mean = <<>>
    /\ pseudo_words = <<>>
    /\ pseudo_means = <<>>
    /\ p_value = <<>>
    /\ lex_verdict = ""
    /\ lex_result = <<>>
    /\ RankIdle
    /\ ScoreIdle
    /\ BootIdle
    /\ PerturbIdle
    /\ BayesIdle
    /\ ProcessIdle

\* lines 567-579: score the Linear A words
LexStart ==
    /\ pc = "lex_start"
    /\ actual_mean' = mean_best(la_words)
    /\ pseudo_means' = <<>>
    /\ pc' = IF n_pseudo = 0 THEN "lex_statistics" ELSE "lex_lexicon"
    /\ UNCHANGED <<n_pseudo, pseudo_words, p_value, lex_verdict, lex_result,
                   rankVars, scoreVars, bootVars, perturbVars, afterLexVars>>

\* lines 581-586: one pseudo-lexicon, given the words that were generated
lex_lexicon(lexicon) ==
    /\ pc = "lex_lexicon"
    /\ pseudo_words' = lexicon.pseudo_words
    /\ pseudo_means' = Append(pseudo_means, lexicon.mean)
    /\ pc' = IF Len(pseudo_means) + 1 = n_pseudo THEN "lex_statistics"
             ELSE "lex_lexicon"
    /\ UNCHANGED <<n_pseudo, actual_mean, p_value, lex_verdict, lex_result,
                   rankVars, scoreVars, bootVars, perturbVars, bayesVars>>

\* lines 580-586: one pseudo-lexicon
LexLexicon ==
    /\ \E lexicon \in LexiconDraws : lex_lexicon(lexicon)
    /\ UNCHANGED processVars

\* lines 588-628
LexStatistics ==
    /\ pc = "lex_statistics"
    /\ \E st \in {lexical_statistics(pseudo_means, actual_mean, n_pseudo)} :
         /\ p_value' = st.p_value
         /\ lex_verdict' = st.verdict
         /\ lex_result' = st.result
         /\ pc' = IF st.result.err = "" THEN "lex_done" ELSE "lex_raised"
    /\ UNCHANGED <<n_pseudo, actual_mean, pseudo_words, pseudo_means,
                   rankVars, scoreVars, bootVars, perturbVars, afterLexVars>>

NextLex ==
    \/ LexStart
    \/ LexLexicon
    \/ LexStatistics

SpecLex == InitLex /\ [][NextLex]_vars

---------------------------------------------------------------------------
(* Properties of the lexical control (SpecLex).                            *)

\* the words the run has compared with the Hurrian lexicon so far
C16_ScoredWords ==
    {pseudo_words[i] : i \in 1..Len(pseudo_words)}
    \cup (IF pc = "lex_start" THEN {} ELSE {la_words[i] : i \in 1..Len(la_words)})

\* |B1 /\ B2| / |B1 \/ B2|, and 0 when either word has no bigram
C16_Jaccard(w1, w2) ==
    IF bigrams(w1) = {} \/ bigrams(w2) = {} THEN RInt(0)
    ELSE Rat(Cardinality(bigrams(w1) \cap bigrams(w2)),
             Cardinality(bigrams(w1) \cup bigrams(w2)))

\* C16: the phonetic similarity of two words is the Jaccard index of their
\* sets of adjacent-character bigrams, and 0 when either word has no bigram.
C16_SimilarityIsJaccard ==
    \A w \in C16_ScoredWords : \A k \in 1..Len(hurrian_words) :
        phonetic_similarity(w, hurrian_words[k]) = C16_Jaccard(w, hurrian_words[k])

\* the statistics have been computed from at least one pseudo-lexicon
C17_Computed == pc \in {"lex_done", "lex_raised"} /\ n_pseudo > 0

\* C17: run_lexical_control scores n_pseudo pseudo-lexicons, each of as many
\* words as the Linear A list and each by the mean of its words' best
\* similarities, and p_value is the number of pseudo means >= the actual
\* mean divided by n_pseudo: a multiple of 1/n_pseudo in [0,1].
C17_PValueIsFraction ==
    /\ Len(pseudo_words) \in {0, Len(la_words)}
    /\ pseudo_words # <<>> =>
          pseudo_means[Len(pseudo_means)] = mean_best(pseudo_words)
    /\ C17_Computed =>
          /\ Len(pseudo_means) = n_pseudo
          /\ \E count \in 0..n_pseudo :
                /\ count = Cardinality({i \in 1..n_pseudo :
                                          RLe(actual_mean, pseudo_means[i])})
                /\ p_value = Rat(count, n_pseudo)
          /\ RLe(RInt(0), p_value) /\ RLe(p_value, RInt(1))
          /\ \E k \in 0..n_pseudo : RMul(p_value, RInt(n_pseudo)) = RInt(k)

\* a run whose p_value is strictly between 0 and 1, with a pseudo mean equal
\* to the actual mean
C17_Witness ==
    /\ pc = "lex_done"
    /\ RLt(RInt(0), p_value) /\ RLt(p_value, RInt(1))
    /\ \E i \in 1..n_pseudo : pseudo_means[i] = actual_mean

\* the largest n_pseudo whose statistics the model computes
MaxMeans == 101
\* the largest number of pseudo means that reach the actual mean
MaxAbove == 6

\* the pseudo-lexicons that score below the Linear A words, and the others
LexiconsBelow == {d \in LexiconDraws : RLt(d.mean, mean_best(la_words))}
LexiconsNotBelow == {d \in LexiconDraws : RLe(mean_best(la_words), d.mean)}

\* the state in which the loop over the pseudo-lexicons leaves
\* run_lexical_control: the first above lexicons drawn reached the actual
\* mean, the later ones stayed below it
InitVerdict ==
    /\ pc = "lex_statistics"
    /\ n_pseudo \in 1..MaxMeans
    /\ actual_mean = mean_best(la_words)
    /\ \E above \in 0..MaxAbove, hi \in LexiconsNotBelow, lo \in LexiconsBelow :
         /\ above <= n_pseudo
         /\ pseudo_means = [t \in 1..n_pseudo |-> IF t <= above THEN hi.mean ELSE lo.mean]
         /\ pseudo_words = IF n_pseudo <= above THEN hi.pseudo_words
                           ELSE lo.pseudo_words
    /\ p_value = <<>>
    /\ lex_verdict = ""
    /\ lex_result = <<>>
    /\ RankIdle
    /\ ScoreIdle
    /\ BootIdle
    /\ PerturbIdle
    /\ BayesIdle
    /\ ProcessIdle

\* run_lexical_control from the end of its loop over the pseudo-lexicons
SpecVerdict == InitVerdict /\ [][LexStatistics]_vars

\* C29: the verdict, decided by comparing the actual mean with the entries
\* of the sorted pseudo means at int(0.99 * n_pseudo) and
\* int(0.95 * n_pseudo), is the one p_value gives: HIGHLY SIGNIFICANT
\* exactly when p_value < 0.01, SIGNIFICANT exactly when
\* 0.01 <= p_value < 0.05, NOT significant exactly when p_value >= 0.05.
C29_VerdictAgreesWithPValue ==
    pc = "lex_done" =>
        /\ lex_verdict = "HIGHLY SIGNIFICANT" <=> RLt(p_value, Rat(1, 100))
        /\ lex_verdict = "SIGNIFICANT" <=>
              RLe(Rat(1, 100), p_value) /\ RLt(p_value, Rat(1, 20))
        /\ lex_verdict = "NOT significant" <=> RLe(Rat(1, 20), p_value)

\* a verdict between the two thresholds, from pseudo means of which some
\* reach the actual mean
C29_Witness ==
    /\ pc = "lex_done"
    /\ lex_verdict = "SIGNIFICANT"
    /\ RLt(RInt(0), p_value)

---------------------------------------------------------------------------
(* Python float arithmetic of the convergence script                       *)
(* (LINEAR_A_CROSS_DOMAIN_CONVERGENCE.py).                                 *)
(*                                                                         *)
(* The posterior is driven towards 1, where the rounding of a float        *)
(* decides the outcome, so here a float is an IEEE 754 binary64 value:     *)
(* [m, e] stands for m * 2^e with m a 53-bit natural number, or zero, and  *)
(* every operation rounds its exact result to the nearest such value, ties *)
(* to the even m.  No value of the model leaves the normal range.  A       *)
(* natural number of more than 31 bits is the sequence of its digits in    *)
(* base LimbBase, least significant first, without leading zeros.          *)

\* digits of a natural number are below 2^15
LimbBits == 15
LimbBase == 2 ^ LimbBits
\* bits in the significand of a float
Precision == 53

RECURSIVE NTrim(_)
\* the digits without leading zeros
NTrim(a) ==
    IF a = <<>> THEN <<>>
    ELSE IF a[Len(a)] = 0 THEN NTrim(SubSeq(a, 1, Len(a) - 1))
    ELSE a

RECURSIVE NFromInt(_)
NFromInt(i) == IF i = 0 THEN <<>> ELSE <<i % LimbBase>> \o NFromInt(i \div LimbBase)

Limb(a, k) == IF k <= Len(a) THEN a[k] ELSE 0

RECURSIVE NAddFrom(_, _, _, _)
NAddFrom(a, b, k, carry) ==
    IF k > Len(a) /\ k > Len(b)
    THEN NFromInt(carry)
    ELSE LET s == Limb(a, k) + Limb(b, k) + carry
         IN  <<s % LimbBase>> \o NAddFrom(a, b, k + 1, s \div LimbBase)

NAdd(a, b) == NAddFrom(a, b, 1, 0)

RECURSIVE NSubFrom(_, _, _, _)
NSubFrom(a, b, k, borrow) ==
    IF k > Len(a) THEN <<>>
    ELSE LET d == Limb(a, k) - Limb(b, k) - borrow
         IN  IF d < 0 THEN <<d + LimbBase>> \o NSubFrom(a, b, k + 1, 1)
             ELSE <<d>> \o NSubFrom(a, b, k + 1, 0)

\* a - b for a >= b
NSub(a, b) == NTrim(NSubFrom(a, b, 1, 0))

RECURSIVE NLtFrom(_, _, _)
NLtFrom(a, b, k) ==
    IF k = 0 THEN FALSE
    ELSE IF a[k] # b[k] THEN a[k] < b[k]
    ELSE NLtFrom(a, b, k - 1)

NLt(a, b) ==
    IF Len(a) # Len(b) THEN Len(a) < Len(b) ELSE NLtFrom(a, b, Len(a))
NLe(a, b) == ~NLt(b, a)

RECURSIVE NMulSmallFrom(_, _, _, _)
NMulSmallFrom(a, m, k, carry) ==
    IF k > Len(a) THEN NFromInt(carry)
    ELSE LET p == a[k] * m + carry
         IN  <<p % LimbBase>> \o NMulSmallFrom(a, m, k + 1, p \div LimbBase)

\* a * m for 0 <= m <= LimbBase
NMulSmall(a, m) == NTrim(NMulSmallFrom(a, m, 1, 0))

\* a * LimbBase^n
NShiftLimbs(a, n) == IF a = <<>> THEN <<>> ELSE [k \in 1..n |-> 0] \o a

RECURSIVE NMulFrom(_, _, _)
NMulFrom(a, b, k) ==
    IF k > Len(b) THEN <<>>
    ELSE NAdd(NMulSmall(a, b[k]), NShiftLimbs(NMulFrom(a, b, k + 1), 1))

NMul(a, b) == NMulFrom(a, b, 1)

\* a * 2^s
NShl(a, s) == NShiftLimbs(NMulSmall(a, 2 ^ (s % LimbBits)), s \div LimbBits)

RECURSIVE NDivSmallFrom(_, _, _, _)
NDivSmallFrom(a, m, k, rem) ==
    IF k = 0 THEN [q |-> <<>>, r |-> rem]
    ELSE LET cur == rem * LimbBase + a[k]
             low == NDivSmallFrom(a, m, k - 1, cur % m)
         IN  [q |-> Append(low.q, cur \div m), r |-> low.r]

\* quotient and remainder of a by m, 1 <= m <= LimbBase
NDivSmall(a, m) ==
    LET d == NDivSmallFrom(a, m, Len(a), 0) IN [q |-> NTrim(d.q), r |-> d.r]

\* a \div 2^s, and whether a bit was shifted out
NShrSticky(a, s) ==
    LET whole == IF s \div LimbBits > Len(a) THEN Len(a) ELSE s \div LimbBits
        d == NDivSmall(SubSeq(a, whole + 1, Len(a)), 2 ^ (s % LimbBits))
    IN  [q |-> d.q,
         sticky |-> d.r # 0 \/ \E k \in 1..whole : a[k] # 0]

RECURSIVE BitLenSmall(_)
BitLenSmall(x) == IF x = 0 THEN 0 ELSE 1 + BitLenSmall(x \div 2)

\* the number of bits of a
NBitLen(a) ==
    IF a = <<>> THEN 0 ELSE LimbBits * (Len(a) - 1) + BitLenSmall(a[Len(a)])

NIsOdd(a) == a # <<>> /\ a[1] % 2 = 1

FZero == [m |-> <<>>, e |-> 0]

\* the significand m1 after rounding, which may have carried into a
\* 54th bit
FRoundCarry(m1, e) ==
    IF NBitLen(m1) > Precision
    THEN [m |-> NDivSmall(m1, 2).q, e |-> e + 1]
    ELSE [m |-> m1, e |-> e]

\* m0 rounded up when the bit below it is set and either a lower bit is set
\* too or m0 is odd
FRoundUp(m0, half, sticky, e) ==
    FRoundCarry(IF half /\ (sticky \/ NIsOdd(m0)) THEN NAdd(m0, <<1>>) ELSE m0, e)

\* x: the number shifted down to Precision + 1 bits
FRoundShifted(x, e) == FRoundUp(NDivSmall(x.q, 2).q, NIsOdd(x.q), x.sticky, e)

\* FRound for a number n # 0 of len bits
FRoundLen(n, e, len) ==
    IF len <= Precision
    THEN [m |-> NShl(n, Precision - len), e |-> e - (Precision - len)]
    ELSE FRoundShifted(NShrSticky(n, len - Precision - 1), e + (len - Precision))

\* the float nearest to n * 2^e, ties to even
FRound(n, e) == IF n = <<>> THEN FZero ELSE FRoundLen(n, e, NBitLen(n))

\* float(i) for an integer i >= 0
FInt(i) == FRound(NFromInt(i), 0)

\* x < y for floats x, y >= 0
FLt(x, y) ==
    IF y.m = <<>> THEN FALSE
    ELSE IF x.m = <<>> THEN TRUE
    ELSE IF x.e # y.e THEN x.e < y.e
    ELSE NLt(x.m, y.m)
FLe(x, y) == ~FLt(y, x)

\* min(x, y), max(x, y) as Python evaluates them: the first argument
\* unless the second is smaller (larger)
FMin(x, y) == IF FLt(y, x) THEN y ELSE x
FMax(x, y) == IF FLt(x, y) THEN y ELSE x

\* x * y for floats x, y >= 0
FMul(x, y) ==
    IF x.m = <<>> \/ y.m = <<>> THEN FZero
    ELSE FRound(NMul(x.m, y.m), x.e + y.e)

\* x + y for floats x, y >= 0
FAdd(x, y) ==
    IF x.m = <<>> THEN y
    ELSE IF y.m = <<>> THEN x
    ELSE LET e == IF x.e < y.e THEN x.e ELSE y.e
         IN  FRound(NAdd(NShl(x.m, x.e - e), NShl(y.m, y.e - e)), e)

\* x - y for floats x >= y >= 0
FSub(x, y) ==
    IF y.m = <<>> THEN x
    ELSE LET e == IF x.e < y.e THEN x.e ELSE y.e
         IN  FRound(NSub(NShl(x.m, x.e - e), NShl(y.m, y.e - e)), e)

\* the shift that fills the last digit of a significand, and the number of
\* digits of a significand so shifted
NormShift == (LimbBits - (Precision % LimbBits)) % LimbBits
NormLimbs == (Precision + NormShift) \div LimbBits

\* the estimate of the next digit of a quotient from the leading digits of
\* rb < b * LimbBase and b: it is the digit or up to 2 more
NDivEstimate(rb, b) ==
    IF (Limb(rb, Len(b) + 1) * LimbBase + Limb(rb, Len(b))) \div b[Len(b)] < LimbBase
    THEN (Limb(rb, Len(b) + 1) * LimbBase + Limb(rb, Len(b))) \div b[Len(b)]
    ELSE LimbBase - 1

\* the estimate taken down to the largest digit whose multiple of b is
\* within rb
NDivAdjust(rb, b, est) ==
    est - Cardinality({t \in {u \in 0..1 : u < est} :
                           NLt(rb, NMulSmall(b, est - t))})

\* the next digit of a quotient: how many times b goes into rb
NDivDigit(rb, b) == NDivAdjust(rb, b, NDivEstimate(rb, b))

RECURSIVE NDivLimbs(_, _, _, _)
\* n more digits of the quotient q of the division by b, whose last digit
\* is filled; r < b is the remainder so far
NDivLimbs(r, b, n, q) ==
    IF r = <<>> \/ n = 0
    THEN [q |-> NTrim([k \in 1..n |-> 0] \o q), r |-> r]
    ELSE NDivLimbs(NSub(NShiftLimbs(r, 1),
                        NMulSmall(b, NDivDigit(NShiftLimbs(r, 1), b))),
                   b, n - 1, <<NDivDigit(NShiftLimbs(r, 1), b)>> \o q)

\* the first bit of the quotient of a, b with b <= a < 2 * b or a < b
NDivStart(a, b) ==
    IF NLe(b, a) THEN [q |-> <<1>>, r |-> NSub(a, b)] ELSE [q |-> <<>>, r |-> a]

\* the division d carried on by n digits
NDivMore(d, b, n) == NDivLimbs(d.r, b, n, d.q)

\* the quotient d.q with a last bit that tells whether a remainder is left,
\* rounded
FDivRound(d, e) ==
    IF d.r = <<>> THEN FRound(NMulSmall(d.q, 2), e - 1)
    ELSE FRound(NAdd(NMulSmall(d.q, 2), <<1>>), e - 1)

\* x / y for floats x >= 0, y > 0: long division of the significands to
\* NormLimbs digits after the point
FDiv(x, y) ==
    IF x.m = <<>> THEN FZero
    ELSE FDivRound(NDivMore(NDivStart(NShl(x.m, NormShift), NShl(y.m, NormShift)),
                            NShl(y.m, NormShift), NormLimbs),
                   x.e - y.e - LimbBits * NormLimbs)

\* the float of the decimal literal n/d
FLit(n, d) == FDiv(FInt(n), FInt(d))

---------------------------------------------------------------------------
(* BAYESIAN CROSS-DOMAIN CONVERGENCE (bayesian_convergence).               *)
(*                                                                         *)
(* domain_results.items() is a sequence of [name, lr] items; the score of  *)
(* an item is only printed.  The name of an item is its position among the *)
(* keys.                                                                   *)

\* the longest domain list the model runs
MaxDomains == 26
\* the longest domain list of which every order is run
MaxMixed == 3

\* prior = 0.10
prior == FLit(1, 10)

\* the likelihood ratios that linguistic_domain() ... pre_greek_domain()
\* return, in the order __main__ inserts them
MainRatios ==
    << [m |-> <<17227, 31644, 1497, 148>>, e |-> -50],
       [m |-> <<28087, 28086, 28086, 182>>, e |-> -52],
       [m |-> <<23593, 1310, 9175, 225>>, e |-> -52],
       [m |-> <<28398, 24029, 15291, 247>>, e |-> -53],
       [m |-> <<0, 0, 0, 136>>, e |-> -52],
       [m |-> <<10923, 21845, 10922, 149>>, e |-> -51],
       [m |-> <<7355, 29254, 2042, 247>>, e |-> -52],
       [m |-> <<30583, 28398, 24029, 155>>, e |-> -51] >>

\* domain_results.items() for a list of likelihood ratios
domain_items(lrs) == [k \in 1..Len(lrs) |-> [name |-> k, lr |-> lrs[k]]]

\* lr_clamped = max(0.5, min(lr, 5.0))
lr_clamped_of(lr) == FMax(FLit(1, 2), FMin(lr, FInt(5)))

\* posterior_of that hands back the odds
posterior_is_odds(odds) == odds

\* posterior = odds / (1 + odds)
posterior_of(odds) == FDiv(odds, FAdd(FInt(1), odds))

\* lines 490-495: one update; 1 - posterior = 0 makes the division raise
bayes_update(p, lr) ==
    LET rest == FSub(FInt(1), p)
    IN  IF rest = FZero THEN [err |-> "ZeroDivisionError", posterior |-> p]
        ELSE [err |-> "",
              posterior |-> posterior_of(FMul(FDiv(p, rest), lr_clamped_of(lr)))]

RECURSIVE bayes_fold(_, _, _)
\* the loop of lines 486-497 over the first n items, from posterior p
bayes_fold(p, items, n) ==
    IF n = 0 THEN [err |-> "", posterior |-> p]
    ELSE LET before == bayes_fold(p, items, n - 1)
         IN  IF before.err # "" THEN before
             ELSE bayes_update(before.posterior, items[n].lr)

\* lines 504-513
bayes_verdict_of(p) ==
    IF FLe(FLit(95, 100), p) THEN "NEAR-CERTAIN"
    ELSE IF FLe(FLit(85, 100), p) THEN "HIGHLY PROBABLE"
    ELSE IF FLe(FLit(70, 100), p) THEN "PROBABLE"
    ELSE IF FLe(FLit(50, 100), p) THEN "LIKELY"
    ELSE "UNCERTAIN"

\* likelihood ratios of the lists: inside the clamp range, at its ends and
\* outside it
RatioValues == {FLit(3, 10), FLit(1, 2), FInt(1), FInt(5), FInt(10)}

\* n ratios: a up to position j, b after it
two_phase(n, j, a, b) == [k \in 1..n |-> IF k <= j THEN a ELSE b]

\* the lists of likelihood ratios the model runs: the list of __main__,
\* every list of up to MaxMixed ratios, and the lists of up to MaxDomains
\* ratios that repeat one ratio or change ratio after the first or before
\* the last domain
RatioLists ==
    {MainRatios}
    \cup UNION {[1..n -> RatioValues] : n \in 0..MaxMixed}
    \cup {two_phase(n, j, a, b) :
            n \in (MaxMixed + 1)..MaxDomains, j \in {1},
            a \in {FLit(1, 2), FInt(1), FInt(5)},
            b \in {FLit(1, 2), FInt(1), FInt(5)}}
    \cup {two_phase(n, n - 1, FInt(5), FLit(1, 2)) : n \in (MaxMixed + 1)..MaxDomains}

InitBayes ==
    /\ pc = "bayes_start"
    /\ domain_results \in {domain_items(lrs) : lrs \in RatioLists}
    /\ domain_index = 0
    /\ posterior = <<>>
    /\ bayes_verdict = ""
    /\ bayes_result = <<>>
    /\ RankIdle
    /\ ScoreIdle
    /\ BootIdle
    /\ PerturbIdle
    /\ LexIdle
    /\ ProcessIdle

\* lines 478-484
BayesPrior ==
    /\ pc = "bayes_start"
    /\ posterior' = prior
    /\ domain_index' = 0
    /\ pc' = IF domain_results = <<>> THEN "bayes_return" ELSE "bayes_loop"
    /\ UNCHANGED <<domain_results, bayes_verdict, bayes_result,
                   rankVars, scoreVars, bootVars, perturbVars, lexVars,
                   processVars>>

\* lines 486-497: the update for the next domain
BayesUpdate ==
    /\ pc = "bayes_loop"
    /\ \E u \in {bayes_update(posterior, domain_results[domain_index + 1].lr)} :
         IF u.err # ""
         THEN /\ bayes_result' = [err |-> u.err]
              /\ pc' = "bayes_raised"
              /\ UNCHANGED <<posterior, domain_index>>
         ELSE /\ posterior' = u.posterior
              /\ domain_index' = domain_index + 1
              /\ pc' = IF domain_index + 1 = Len(domain_results)
                       THEN "bayes_return" ELSE "bayes_loop"
              /\ UNCHANGED bayes_result
    /\ UNCHANGED <<domain_results, bayes_verdict,
                   rankVars, scoreVars, bootVars, perturbVars, lexVars,
                   processVars>>

\* lines 499-537
BayesReturn ==
    /\ pc = "bayes_return"
    /\ bayes_verdict' = bayes_verdict_of(posterior)
    /\ bayes_result' = [err |-> "", val |-> posterior]
    /\ pc' = "bayes_done"
    /\ UNCHANGED <<domain_results, domain_index, posterior,
                   rankVars, scoreVars, bootVars, perturbVars, lexVars,
                   processVars>>

NextBayes ==
    \/ BayesPrior
    \/ BayesUpdate
    \/ BayesReturn

SpecBayes == InitBayes /\ [][NextBayes]_vars

---------------------------------------------------------------------------
(* Properties of the convergence (SpecBayes).                              *)

\* C18: the posterior is strictly between 0 and 1 after every domain
\* update, for any number of chained domains.
C18_PosteriorStrictlyInside ==
    domain_index >= 1 => FLt(FZero, posterior) /\ FLt(posterior, FInt(1))

\* the list s with the items at positions i and j exchanged
C19_Swapped(s, i, j) ==
    [k \in 1..Len(s) |-> IF k = i THEN s[j] ELSE IF k = j THEN s[i] ELSE s[k]]

\* what bayesian_convergence returns (or raises) for the items
C19_Outcome(items) ==
    LET r == bayes_fold(prior, items, Len(items))
    IN  IF r.err # "" THEN [err |-> r.err] ELSE [err |-> "", val |-> r.posterior]

\* C19: the final posterior is the same for every permutation of the
\* domains (here: for every exchange of two domains, which generate the
\* permutations).
C19_OrderIndependent ==
    pc \in {"bayes_done", "bayes_raised"} =>
        \A i \in 1..Len(domain_results) : \A j \in (i + 1)..Len(domain_results) :
            domain_results[i].lr # domain_results[j].lr =>
                C19_Outcome(C19_Swapped(domain_results, i, j)) = bayes_result

\* every domain carries the likelihood ratio 1
C20_AllNeutral ==
    /\ domain_results # <<>>
    /\ \A k \in 1..Len(domain_results) : domain_results[k].lr = FInt(1)

\* C20: when every domain carries a neutral likelihood ratio, the posterior
\* after every update and the final posterior equal the prior.
C20_NeutralKeepsPrior ==
    C20_AllNeutral =>
        /\ pc # "bayes_raised"
        /\ pc # "bayes_start" => posterior = prior
        /\ pc = "bayes_done" => bayes_result = [err |-> "", val |-> prior]

\* the longest neutral list has been folded in and the prior returned
C20_Witness ==
    /\ C20_AllNeutral
    /\ pc = "bayes_done"
    /\ domain_index = MaxDomains
    /\ bayes_result.val = FLit(1, 10)

---------------------------------------------------------------------------
(* The odds of the convergence (SpecBayes).                                *)

\* 1 - p for a float 0 < p <= 1, exactly, in units of 2^p.e
C21_OneMinus(p) == NSub(NShl(<<1>>, 0 - p.e), p.m)

\* |a - b| for natural numbers
C21_Distance(a, b) == IF NLe(a, b) THEN NSub(b, a) ELSE NSub(a, b)

\* a and b differ by at most b / 2^10
C21_Close(a, b) == NLe(NShl(C21_Distance(a, b), 10), b)

\* the odds q/(1-q) are the odds p/(1-p) times lr, as real numbers and up
\* to a relative error of 2^-10: q(1-p) against lr p(1-q), both in units
\* of 2^(p.e + q.e + lr.e)
C21_OddsTimes(p, q, lr) ==
    C21_Close(NShl(NMul(q.m, C21_OneMinus(p)), 0 - lr.e),
              NMul(NMul(lr.m, p.m), C21_OneMinus(q)))

\* the clamped ratio of the domain that the next update takes
C21_Factor == lr_clamped_of(domain_results[domain_index + 1].lr)

\* C21: every domain's likelihood ratio is clamped into [0.5, 5.0], and one
\* update multiplies the posterior odds p/(1-p) by that clamped ratio (so
\* that the final odds are the prior odds times the product of the clamped
\* ratios); the odds are compared as real numbers, to one part in 2^10.
C21_OddsMultiplied ==
    [][pc = "bayes_loop" =>
          /\ FLe(FLit(1, 2), C21_Factor) /\ FLe(C21_Factor, FInt(5))
          /\ pc' # "bayes_raised"
          /\ C21_OddsTimes(posterior, posterior', C21_Factor)]_vars

\* the posteriors after the first, the first two, ... domains
C22_Posteriors ==
    [k \in 1..Len(domain_results) |-> bayes_fold(prior, domain_results, k).posterior]

\* the floats the call hands to its caller
C22_Exposed == {bayes_result.val}

\* C22: every intermediate posterior is retained: the result of
\* bayesian_convergence exposes the posterior after each domain, the final
\* posterior being the last of them.
C22_ResultIsPosteriorSequence ==
    pc = "bayes_done" =>
        \A k \in 1..Len(domain_results) : C22_Posteriors[k] \in C22_Exposed

---------------------------------------------------------------------------
(* THE PROCESS: the module-level generator and the engines that draw from  *)
(* it (import random, random.seed(42), the calls of __main__).             *)
(*                                                                         *)
(* The generator of the random module is one object of the process.  Its   *)
(* state is the seed it was last given and how many values were drawn      *)
(* since; the value it hands out is a function of the two.                 *)

\* the largest trial count an invocation is given
MaxProcessTrials == 2

\* the value the generator hands out at a position of the stream of a seed
rng_word(seed, position) ==
    ((seed + 1) * (position * position + 7 * position + 3)
        + (position \div 3) * 11) % 1009

\* random.seed(x)
random_seed(x) == [seed |-> x, position |-> 0]

\* the generator after k more values were drawn
rng_advance(g, k) == [g EXCEPT !.position = @ + k]

\* a generator seeded from the history of the process instead of the seed
random_word_unseeded(g, k) == rng_word(Len(calls), g.position + k)

\* the k-th value the generator g hands out next, k >= 1
random_word(g, k) == rng_word(g.seed, g.position + k - 1)

\* random.randint(a, b) as the k-th next draw
random_randint(g, k, a, b) == a + (random_word(g, k) % (b - a + 1))

\* random.choice(seq) as the k-th next draw
random_choice(g, k, seq) == seq[random_randint(g, k, 1, Len(seq))]

\* vowel_weights, in tenths of a percent
vowel_weights == <<433, 206, 175, 144, 41>>

\* random.choices(population, weights=weights, k=1)[0] as the k-th next
\* draw: the first item whose cumulative weight exceeds the drawn point
random_choices(g, k, population, weights) ==
    LET total == SumOver(weights, 1..Len(weights))
        point == random_word(g, k) % total
    IN  population[CHOOSE i \in 1..Len(weights) :
            /\ point < SumOver(weights, 1..i)
            /\ SumOver(weights, 1..(i - 1)) <= point]

\* the sizes of noise random.gauss hands out in the model
GaussValues == <<5, -5, 10, -10>>

\* random.gauss(0, sigma) as the k-th next draw
random_gauss(g, k) == random_choice(g, k, GaussValues)

\* line 471: indices, and the generator after the n_dims draws
drawn_indices(g, n_dims) ==
    [indices |-> [k \in 1..n_dims |-> random_randint(g, k, 0, n_dims - 1)],
     rng |-> rng_advance(g, n_dims)]

\* lines 549-555: the syllables of one pseudo-word: n_syl, then a consonant
\* and a vowel for each syllable
drawn_syllables(g) ==
    [k \in 1..random_randint(g, 1, 2, 5) |->
        <<random_choice(g, 2 * k, consonants),
          random_choices(g, 2 * k + 1, vowels_list, vowel_weights)>>]

RECURSIVE drawn_words(_, _)
\* line 581: the first n pseudo-words of a lexicon, and the generator after
drawn_words(g, n) ==
    IF n = 0 THEN [pseudo_words |-> <<>>, rng |-> g]
    ELSE LET prev == drawn_words(g, n - 1)
             syllables == drawn_syllables(prev.rng)
         IN  [pseudo_words |-> Append(prev.pseudo_words, generate_pseudo_word(syllables)),
              rng |-> rng_advance(prev.rng, 1 + 2 * Len(syllables))]

\* lines 581-586: one pseudo-lexicon with the mean it scores
drawn_lexicon(g) ==
    LET d == drawn_words(g, Len(la_words))
    IN  [pseudo_words |-> d.pseudo_words, mean |-> mean_best(d.pseudo_words),
         rng |-> d.rng]

\* lines 664-684 for the i-th family: where the sample starts, the size of
\* the noise, and the generator after the sample and the noise of every key
drawn_perturbation(g, h, i, perturb_pct) ==
    LET len == Len(feature_names_of(h))
        n_flip == n_flip_of(len, perturb_pct)
        fdata == h[TableRef(i)]
    IN  [start |-> IF n_flip = 0 THEN 0 ELSE random_randint(g, 1, 0, len - 1),
         noise |-> random_gauss(g, n_flip + 1),
         rng |-> rng_advance(g, n_flip
                                 + Cardinality(DOMAIN h[fdata["vocabulary_matches"]])
                                 + Cardinality(DOMAIN h[fdata["case_similarity"]]))]

\* the engines that draw from the generator
RandomizedEngines ==
    {"run_bootstrap_test", "run_lexical_control", "run_perturbation_test"}

\* lines 860-866: the process makes as many invocations as __main__ does
MaxCalls == Cardinality(RandomizedEngines)

\* the tables the process is started with
ProcessTables == {t \in PerturbTables : t[1].data["features"] = BaseProfile["features"]}

InitProcess ==
    /\ pc = "main"
    /\ LANGUAGE_FAMILIES \in ProcessTables
    /\ heap = heap_of(LANGUAGE_FAMILIES)
    /\ families_before = LANGUAGE_FAMILIES
    /\ n_trials = 0
    /\ perturb_level = 0
    /\ perturbed_families = <<>>
    /\ flip_indices = <<>>
    /\ hurrian_scores_list = <<>>
    /\ perturb_wins = 0
    /\ all_results = <<>>
    /\ perturb_verdict = ""
    /\ rng = random_seed(42)
    /\ calls = <<>>
    /\ RankResultsIdle
    /\ ScoreIdle
    /\ BootIdle
    /\ LexIdle
    /\ BayesIdle

\* a caller of the module seeds the generator again
RandomSeed ==
    /\ pc = "main"
    /\ rng.position > 0
    /\ rng' = random_seed(42)
    /\ UNCHANGED <<pc, calls, rankVars, scoreVars, bootVars, perturbVars, lexVars,
                   bayesVars>>

\* the entry of the log for an invocation that has not returned yet
call_entry(engine, n) ==
    [engine |-> engine, n |-> n, rng |-> rng, table |-> LANGUAGE_FAMILIES,
     report |-> <<>>]

\* line 860: run_bootstrap_test(n_iterations=n)
CallBootstrap ==
    /\ pc = "main"
    /\ Len(calls) < MaxCalls
    /\ \E n \in 1..MaxProcessTrials :
         /\ n_iterations' = n
         /\ calls' = Append(calls, call_entry("run_bootstrap_test", n))
    /\ pc' = "bootstrap_start"
    /\ UNCHANGED <<family_dim_scores, indices, iter_scores, bootstrap_scores,
                   hurrian_wins, bootstrap_report, rng,
                   rankVars, scoreVars, perturbVars, lexVars, bayesVars>>

\* line 863: run_lexical_control(n_pseudo=n)
CallLexical ==
    /\ pc = "main"
    /\ Len(calls) < MaxCalls
    /\ \E n \in 1..MaxProcessTrials :
         /\ n_pseudo' = n
         /\ calls' = Append(calls, call_entry("run_lexical_control", n))
    /\ pc' = "lex_start"
    /\ UNCHANGED <<actual_mean, pseudo_words, pseudo_means, p_value, lex_verdict,
                   lex_result, rng,
                   rankVars, scoreVars, bootVars, perturbVars, bayesVars>>

\* line 866: run_perturbation_test(n_trials=n)
CallPerturbation ==
    /\ pc = "main"
    /\ Len(calls) < MaxCalls
    /\ \E n \in 1..MaxPerturbTrials :
         /\ n_trials' = n
         /\ calls' = Append(calls, call_entry("run_perturbation_test", n))
    /\ pc' = "perturb_start"
    /\ UNCHANGED <<heap, families_before, perturb_level, perturbed_families,
                   flip_indices, hurrian_scores_list, perturb_wins, all_results,
                   perturb_verdict, rng,
                   rankVars, scoreVars, bootVars, lexVars, bayesVars>>

\* lines 470-486 with the indices of line 471 drawn from the generator
ProcessBootstrapTrial ==
    /\ pc = "bootstrap_loop"
    /\ \E d \in {drawn_indices(rng, n_dims_of(family_dim_scores))} :
         /\ bootstrap_trial(d.indices)
         /\ rng' = d.rng
    /\ UNCHANGED calls

\* lines 580-586 with the words drawn from the generator
ProcessLexLexicon ==
    /\ pc = "lex_lexicon"
    /\ \E d \in {drawn_lexicon(rng)} :
         /\ lex_lexicon(d)
         /\ rng' = d.rng
    /\ UNCHANGED calls

\* lines 659-688 with the sample and the noise drawn from the generator
ProcessPerturbFamily ==
    /\ pc = "perturb_family"
    /\ \E d \in {drawn_perturbation(rng, heap, Len(perturbed_families) + 1,
                                    perturbation_levels[perturb_level])} :
         /\ perturb_next_family(d)
         /\ rng' = d.rng
    /\ UNCHANGED calls

\* what the invocation that is returning hands back
returned_report ==
    IF pc = "bootstrap_done"
    THEN [bootstrap_scores |-> bootstrap_scores, win_pct |-> bootstrap_report.win_pct]
    ELSE IF pc = "lex_done" THEN lex_result
    ELSE all_results

\* lines 520, 628, 723: the invocation returns to its caller
ProcessReturn ==
    /\ pc \in {"bootstrap_done", "lex_done", "perturb_done"}
    /\ calls' = [calls EXCEPT ![Len(calls)].report = returned_report]
    /\ pc' = "main"
    /\ UNCHANGED <<rng, rankVars, scoreVars, bootVars, perturbVars, lexVars,
                   bayesVars>>

NextProcess ==
    \/ RandomSeed
    \/ CallBootstrap
    \/ CallLexical
    \/ CallPerturbation
    \/ BootstrapSetup
    \/ ProcessBootstrapTrial
    \/ BootstrapReport
    \/ LexStart
    \/ ProcessLexLexicon
    \/ LexStatistics
    \/ PerturbStart
    \/ ProcessPerturbFamily
    \/ PerturbScore
    \/ PerturbLevelEnd
    \/ PerturbSummary
    \/ ProcessReturn

SpecProcess == InitProcess /\ [][NextProcess]_vars

---------------------------------------------------------------------------
(* Properties of the process (SpecProcess).                                *)

\* the invocations of the log that have returned
C23_Returned == {i \in 1..Len(calls) : calls[i].report # <<>>}

\* two invocations of one engine on the same inputs
C23_SameInputs(i, j) ==
    /\ calls[i].engine = calls[j].engine
    /\ calls[i].n = calls[j].n
    /\ calls[i].table = calls[j].table

\* C23: two invocations of a randomized engine that are entered with the
\* generator in the same seeded state and are given the same inputs return
\* identical reports.
C23_SameSeedSameReport ==
    \A i \in C23_Returned, j \in C23_Returned :
        C23_SameInputs(i, j) /\ calls[i].rng = calls[j].rng
            => calls[i].report = calls[j].report

\* an engine has been invoked twice from the same seeded state, and once
\* more on the same inputs from another state of the generator
C23_Witness ==
    \E i \in C23_Returned, j \in C23_Returned, k \in C23_Returned :
        /\ i < j
        /\ calls[i].engine \in RandomizedEngines
        /\ C23_SameInputs(i, j)
        /\ calls[i].rng = calls[j].rng
        /\ C23_SameInputs(i, k)
        /\ calls[i].rng # calls[k].rng
        /\ calls[i].report # calls[k].report

\* the invocations that ran before the j-th since the generator was seeded
C24_Before(j) ==
    {k \in 1..(j - 1) : \A m \in (k + 1)..j : calls[m].rng.position > 0}

\* C24: the report of a randomized engine is the same whichever other
\* engines ran before it: an invocation that follows invocations of other
\* engines returns what the engine returns when it is the first to run
\* after the seed was set.
C24_ReportIgnoresEarlierEngines ==
    \A i \in C23_Returned, j \in C23_Returned :
        /\ C23_SameInputs(i, j)
        /\ calls[i].rng = random_seed(calls[j].rng.seed)
        /\ \A k \in C24_Before(j) : calls[k].engine # calls[j].engine
        => calls[i].report = calls[j].report

====
